---------------------------- MODULE Spec2Model ----------------------------
(***************************************************************************)
(* A model of json2rust's shape-based type evolution engine                *)
(* (json2rust-evolution: shape.rs, optimizer.rs, evolution.rs,             *)
(* generator.rs).                                                          *)
(*                                                                         *)
(* Rust Strings are TLA+ strings; the byte-offset slicing, prefix and      *)
(* substring tests of the source are modelled character by character.      *)
(* Option<T> is a sequence of length 0 (None) or 1 (Some).  A function     *)
(* whose result depends on the iteration order of a std HashMap / HashSet  *)
(* (RandomState: the order is unspecified and differs between instances)   *)
(* is modelled as the SET of results it can return.                        *)
(***************************************************************************)
EXTENDS Integers, Sequences, FiniteSets, TLC

VARIABLES
    known,      \* the declarations table: type name -> TypeInfo
    shapes,     \* the shape list handed to the optimizer
    sample,     \* the JSON sample of an evolve_with_json call
    target,     \* the target type name (base_name / type_name)
    pc,         \* position of the call under analysis
    result,     \* what the call returned
    result2,    \* what a second call on the same input returned
    original_source, \* the text a CodeSurgeon was made for
    replacements, \* the TypeReplacements handed to it
    existing_structs, \* the structs parsed from the existing code (json2rust-lib)
    schema, \* the JsonSchema of the JSON input (json2rust-lib)
    merge_strategy, \* the MergeStrategy of the call (json2rust-lib)
    generated_names \* the table base name -> number of requests, of ensure_unique_name

vars == <<known, shapes, sample, target, pc, result, result2, original_source, replacements, existing_structs, schema, merge_strategy, generated_names>>

None == <<>>
Some(x) == <<x>>

-----------------------------------------------------------------------------
(* Strings *)

StartsWith(s, p) == Len(s) >= Len(p) /\ SubSeq(s, 1, Len(p)) = p

EndsWith(s, p) == Len(s) >= Len(p) /\ SubSeq(s, Len(s) - Len(p) + 1, Len(s)) = p

Contains(s, p) == \E i \in 1..(Len(s) - Len(p) + 1) : SubSeq(s, i, i + Len(p) - 1) = p

RECURSIVE TrimStart(_)
TrimStart(s) == IF Len(s) > 0 /\ SubSeq(s, 1, 1) = " " THEN TrimStart(Tail(s)) ELSE s

RECURSIVE TrimEnd(_)
TrimEnd(s) ==
    IF Len(s) > 0 /\ SubSeq(s, Len(s), Len(s)) = " "
    THEN TrimEnd(SubSeq(s, 1, Len(s) - 1))
    ELSE s

Trim(s) == TrimEnd(TrimStart(s))

\* str::replace: every non-overlapping match, left to right
RECURSIVE Replace(_, _, _)
Replace(s, from, to) ==
    IF Len(s) = 0 THEN s
    ELSE IF StartsWith(s, from)
         THEN to \o Replace(SubSeq(s, Len(from) + 1, Len(s)), from, to)
         ELSE SubSeq(s, 1, 1) \o Replace(Tail(s), from, to)

RECURSIVE TrimEndMatches(_, _)
TrimEndMatches(s, p) ==
    IF EndsWith(s, p) THEN TrimEndMatches(SubSeq(s, 1, Len(s) - Len(p)), p) ELSE s

UpperChars == "ABCDEFGHIJKLMNOPQRSTUVWXYZ"
LowerChars == "abcdefghijklmnopqrstuvwxyz"

LowerChar(c) ==
    IF \E i \in 1..Len(UpperChars) : SubSeq(UpperChars, i, i) = c
    THEN LET i == CHOOSE k \in 1..Len(UpperChars) : SubSeq(UpperChars, k, k) = c
         IN  SubSeq(LowerChars, i, i)
    ELSE c

RECURSIVE ToLowercase(_)
ToLowercase(s) ==
    IF Len(s) = 0 THEN s ELSE LowerChar(SubSeq(s, 1, 1)) \o ToLowercase(Tail(s))

\* byte order of the characters that occur in field names
CharOrder == " \"0123456789<>ABCDEFGHIJKLMNOPQRSTUVWXYZ_abcdefghijklmnopqrstuvwxyz"

CharRank(c) == CHOOSE i \in 1..Len(CharOrder) : SubSeq(CharOrder, i, i) = c

\* String's Ord: lexicographic on bytes
RECURSIVE StrLess(_, _)
StrLess(a, b) ==
    IF Len(b) = 0 THEN FALSE
    ELSE IF Len(a) = 0 THEN TRUE
    ELSE LET ca == CharRank(SubSeq(a, 1, 1))
             cb == CharRank(SubSeq(b, 1, 1))
         IN  IF ca # cb THEN ca < cb ELSE StrLess(Tail(a), Tail(b))

-----------------------------------------------------------------------------
(* Sequences and sets *)

Range(s) == {s[i] : i \in DOMAIN s}

\* every order in which a hash collection holding exactly S can be iterated
Orderings(S) ==
    {p \in [1..Cardinality(S) -> S] : \A i, j \in 1..Cardinality(S) : i # j => p[i] # p[j]}

RECURSIVE SortedSeq(_)
SortedSeq(S) ==
    IF S = {} THEN <<>>
    ELSE LET m == CHOOSE x \in S : \A y \in S : x <= y
         IN  <<m>> \o SortedSeq(S \ {m})

\* the sequences picking one element of each set of a sequence of sets
RECURSIVE Product(_)
Product(sets) ==
    IF sets = <<>> THEN {<<>>}
    ELSE {<<h>> \o t : h \in Head(sets), t \in Product(Tail(sets))}

-----------------------------------------------------------------------------
(* shape.rs: the shape model *)

ShapeField(n, t, r) == [name |-> n, field_type |-> t, is_required |-> r]

ShapeMetadata_new == [original_enum_field_name |-> None, source_enum_type |-> None]

\* metadata that forgets the field and the union it was asked to record
ShapeMetadata_without_enum_field(field_name, enum_type) ==
    [original_enum_field_name |-> None, source_enum_type |-> None]

ShapeMetadata_with_enum_field(field_name, enum_type) ==
    [original_enum_field_name |-> Some(field_name), source_enum_type |-> Some(enum_type)]

Shape(fs, md) == [fields |-> fs, metadata |-> md]

ShapeVariant(n, fs) == [name |-> n, fields |-> fs]

FieldNames(fs) == {fs[i].name : i \in DOMAIN fs}

\* iter().find(|f| f.name == name): the first field of that name
FindField(fs, n) == fs[CHOOSE i \in DOMAIN fs : fs[i].name = n /\ \A j \in 1..(i - 1) : fs[j].name # n]

(* generator.rs: EvolutionResult *)

simple_struct(n, fs) == [kind |-> "SimpleStruct", name |-> n, fields |-> fs]

complex_enum(n, cf, vs) ==
    [kind |-> "ComplexEnum", name |-> n, common_fields |-> cf, variants |-> vs]

struct_with_extended_enum(sn, sf, en, nv) ==
    [kind |-> "StructWithExtendedEnum", struct_name |-> sn, struct_fields |-> sf,
     enum_name |-> en, new_enum_variants |-> nv]

-----------------------------------------------------------------------------
(* optimizer.rs: common fields and variant clustering *)

\* no preference: the first field met is kept
choose_first_field_type(field1, field2) == field1

choose_better_field_type(field1, field2) ==
    LET t1 == field1.field_type
        t2 == field2.field_type
    IN  IF t1 = t2 THEN field1
        ELSE IF t1 = "i32" /\ t2 = "i64" THEN field1
        ELSE IF t1 = "i64" /\ t2 = "i32" THEN field2
        ELSE IF t1 = "i16" /\ t2 \in {"i32", "i64"} THEN field1
        ELSE IF t1 \in {"i32", "i64"} /\ t2 = "i16" THEN field2
        ELSE IF t1 = "u32" /\ t2 = "u64" THEN field1
        ELSE IF t1 = "u64" /\ t2 = "u32" THEN field2
        ELSE IF t1 = "u16" /\ t2 \in {"u32", "u64"} THEN field1
        ELSE IF t1 \in {"u32", "u64"} /\ t2 = "u16" THEN field2
        ELSE IF field1.is_required /\ ~field2.is_required THEN field1
        ELSE IF ~field1.is_required /\ field2.is_required THEN field2
        ELSE field1

\* field_info[name] after the loop over `shapes`: each shape contributes the
\* first of its fields of that name (seen_in_shape), folded with
\* choose_better_field_type
RECURSIVE field_info(_, _, _)
field_info(shps, n, acc) ==
    IF shps = <<>> THEN acc
    ELSE LET fs == Head(shps).fields
         IN  IF n \in FieldNames(fs)
             THEN field_info(Tail(shps), n,
                             IF acc = None THEN Some(FindField(fs, n))
                             ELSE Some(choose_better_field_type(acc[1], FindField(fs, n))))
             ELSE field_info(Tail(shps), n, acc)

\* the keys of field_counts whose count is shapes.len()
common_names(shps) ==
    IF shps = <<>> THEN {}
    ELSE {n \in UNION {FieldNames(shps[i].fields) : i \in DOMAIN shps} :
             \A i \in DOMAIN shps : n \in FieldNames(shps[i].fields)}

\* field_counts.into_iter() yields the common names in hash order
find_common_fields(shps) ==
    {[i \in DOMAIN p |-> field_info(shps, p[i], None)[1]] : p \in Orderings(common_names(shps))}

remove_common_fields(shps, common_fields) ==
    [i \in DOMAIN shps |->
        LET keep(f) == f.name \notin FieldNames(common_fields)
        IN  Shape(SelectSeq(shps[i].fields, keep), shps[i].metadata)]

count_field_differences(shape1, shape2) ==
    LET fields1 == FieldNames(shape1.fields)
        fields2 == FieldNames(shape2.fields)
    IN  Cardinality(fields1 \ fields2) + Cardinality(fields2 \ fields1)

\* a stricter merge test: only shapes with the same names would merge
can_merge_shapes_same_names(shape1, shape2) == count_field_differences(shape1, shape2) = 0

\* a looser merge test: shapes two names apart would merge
can_merge_shapes_within_two(shape1, shape2) == count_field_differences(shape1, shape2) <= 2

can_merge_shapes(shape1, shape2) == count_field_differences(shape1, shape2) <= 1

RECURSIVE collect_all_fields_from(_, _)
collect_all_fields_from(fs, all_fields) ==
    IF fs = <<>> THEN all_fields
    ELSE IF Head(fs).name \in FieldNames(all_fields)
         THEN collect_all_fields_from(Tail(fs), all_fields)
         ELSE collect_all_fields_from(Tail(fs), Append(all_fields, Head(fs)))

RECURSIVE collect_all_fields_acc(_, _)
collect_all_fields_acc(shps, all_fields) ==
    IF shps = <<>> THEN all_fields
    ELSE collect_all_fields_acc(Tail(shps), collect_all_fields_from(Head(shps).fields, all_fields))

\* a collection that looks at the first shape only
collect_all_fields_of_first(shps) ==
    IF shps = <<>> THEN <<>> ELSE collect_all_fields_from(Head(shps).fields, <<>>)

collect_all_fields(shps) == collect_all_fields_acc(shps, <<>>)

\* a test that knows the compact spelling only
mentions_option_compact(t) == StartsWith(t, "Option<") \/ Contains(t, "Option<")

\* the test that guards both Option-wrapping sites
mentions_option(t) ==
    \/ StartsWith(t, "Option<")
    \/ StartsWith(t, "Option <")
    \/ Contains(t, "Option<")
    \/ Contains(t, "Option <")

clean_field_type(t) ==
    IF StartsWith(t, "Option<Option<") /\ EndsWith(t, ">>")
    THEN "Option<" \o SubSeq(t, 15, Len(t) - 2) \o ">"
    ELSE IF StartsWith(t, "Option < Option <") /\ EndsWith(t, " > >")
         THEN "Option < " \o Trim(SubSeq(t, 18, Len(t) - 4)) \o " >"
         ELSE t

clean_field_types(fs) ==
    [i \in DOMAIN fs |-> [fs[i] EXCEPT !.field_type = clean_field_type(fs[i].field_type)]]

\* create_merged_variant, lines 289-299: each field of all_fields whose name
\* is not yet in merged_fields is pushed, Option-wrapped unless its type
\* already mentions Option
RECURSIVE add_optional_fields(_, _)
add_optional_fields(merged_fields, all_fields) ==
    IF all_fields = <<>> THEN merged_fields
    ELSE LET field == Head(all_fields)
         IN  IF field.name \in FieldNames(merged_fields)
             THEN add_optional_fields(merged_fields, Tail(all_fields))
             ELSE add_optional_fields(
                      Append(merged_fields,
                             IF mentions_option(field.field_type) THEN field
                             ELSE [field EXCEPT !.field_type = "Option<" \o field.field_type \o ">"]),
                      Tail(all_fields))

\* indices are 1-based here, so the source's indices[0] + 1 is indices[1]
create_merged_variant(indices, shps) ==
    IF Len(indices) = 1
    THEN {ShapeVariant("Variant" \o ToString(indices[1]), shps[indices[1]].fields)}
    ELSE LET variant_shapes == [k \in DOMAIN indices |-> shps[indices[k]]]
             all_fields == collect_all_fields(variant_shapes)
         IN  {ShapeVariant("MergedVariant" \o ToString(indices[1]),
                           clean_field_types(add_optional_fields(common_fields, all_fields))) :
                 common_fields \in find_common_fields(variant_shapes)}

\* the index lists (mergeable_indices) of optimize_variants' outer loop
RECURSIVE mergeable_clusters(_, _, _)
mergeable_clusters(shps, i, processed) ==
    IF i > Len(shps) THEN <<>>
    ELSE IF i \in processed THEN mergeable_clusters(shps, i + 1, processed)
    ELSE LET js == {j \in (i + 1)..Len(shps) :
                       j \notin processed /\ can_merge_shapes(shps[i], shps[j])}
         IN  <<(<<i>> \o SortedSeq(js))>>
                 \o mergeable_clusters(shps, i + 1, processed \cup {i} \cup js)

optimize_variants(shps) ==
    LET clusters == mergeable_clusters(shps, 1, {})
    IN  Product([k \in DOMAIN clusters |-> create_merged_variant(clusters[k], shps)])

apply_recursive_optimization(variants) == variants

-----------------------------------------------------------------------------
(* parser.rs: the declarations table *)

FieldInfo(n, t, o) == [name |-> n, field_type |-> t, is_optional |-> o]

\* fields is None for a unit (or tuple) variant, Some(list) for a struct variant
VariantInfo(n, fs) == [name |-> n, fields |-> fs]

StructType(n, fs) == [name |-> n, kind |-> "Struct", fields |-> fs]

EnumType(n, vs, untagged) ==
    [name |-> n, kind |-> "Enum", variants |-> vs, is_untagged |-> untagged]


\* The text quote! prints for a type: its tokens (identifiers, "<", ">",
\* "::") separated by single spaces, whatever the spacing of the source.
RECURSIVE type_tokens(_, _)
type_tokens(s, cur) ==
    LET flush == IF cur = "" THEN <<>> ELSE <<cur>>
    IN  IF s = "" THEN flush
        ELSE IF SubSeq(s, 1, 1) = " " THEN flush \o type_tokens(Tail(s), "")
        ELSE IF SubSeq(s, 1, 1) \in {"<", ">"}
             THEN flush \o <<SubSeq(s, 1, 1)>> \o type_tokens(Tail(s), "")
        ELSE IF StartsWith(s, "::")
             THEN flush \o <<"::">> \o type_tokens(SubSeq(s, 3, Len(s)), "")
        ELSE type_tokens(Tail(s), cur \o SubSeq(s, 1, 1))

RECURSIVE join_tokens(_)
join_tokens(tokens) ==
    IF tokens = <<>> THEN ""
    ELSE IF Len(tokens) = 1 THEN tokens[1]
    ELSE tokens[1] \o " " \o join_tokens(Tail(tokens))

\* parse_field_type of a field written with the type text `ty`:
\* <<type_str, is_optional>>
parse_field_type(ty) ==
    LET type_str == join_tokens(type_tokens(ty, ""))
    IN  <<type_str, StartsWith(type_str, "Option <")>>

\* parse_field of the field line <<name, type text>> of a declaration
parse_field(line) ==
    FieldInfo(line[1], parse_field_type(line[2])[1], parse_field_type(line[2])[2])

-----------------------------------------------------------------------------
(* optimizer.rs: fold-back onto known untagged enums *)

clean_type_string(type_str) ==
    Replace(Replace(Replace(Replace(type_str, " < ", "<"), " >", ">"), "< ", "<"), " >", ">")

types_compatible(type1, type2) ==
    \/ type1 = type2
    \/ clean_type_string(type1) = clean_type_string(type2)

\* a test that wants the same required-ness on both sides
patterns_compatible_same_required(pattern1, pattern2) ==
    /\ Len(pattern1) = Len(pattern2)
    /\ \A i \in DOMAIN pattern1 :
          /\ pattern1[i][1] = pattern2[i][1]
          /\ types_compatible(pattern1[i][2], pattern2[i][2])
          /\ pattern2[i][3] = pattern1[i][3]

\* a pattern is a list of <<name, field_type, required>>
patterns_compatible(pattern1, pattern2) ==
    /\ Len(pattern1) = Len(pattern2)
    /\ \A i \in DOMAIN pattern1 :
          /\ pattern1[i][1] = pattern2[i][1]
          /\ types_compatible(pattern1[i][2], pattern2[i][2])
          /\ ~(pattern2[i][3] /\ ~pattern1[i][3])

\* Vec::sort_by(|a, b| a.0.cmp(&b.0)): stable, by name
RECURSIVE insert_by_name(_, _)
insert_by_name(sorted, x) ==
    IF sorted = <<>> THEN <<x>>
    ELSE IF StrLess(x[1], Head(sorted)[1]) THEN <<x>> \o sorted
         ELSE <<Head(sorted)>> \o insert_by_name(Tail(sorted), x)

RECURSIVE sort_by_name_acc(_, _)
sort_by_name_acc(s, sorted) ==
    IF s = <<>> THEN sorted ELSE sort_by_name_acc(Tail(s), insert_by_name(sorted, Head(s)))

sort_by_name(s) == sort_by_name_acc(s, <<>>)

shape_pattern(fs) ==
    sort_by_name([i \in DOMAIN fs |-> <<fs[i].name, fs[i].field_type, fs[i].is_required>>])

enum_variant_pattern(fs) ==
    sort_by_name([i \in DOMAIN fs |-> <<fs[i].name, fs[i].field_type, ~fs[i].is_optional>>])

\* the patterns of the enum's variants that have fields
enum_patterns(enum_info) ==
    LET with_fields == SelectSeq(enum_info.variants, LAMBDA v : v.fields # None)
    IN  [i \in DOMAIN with_fields |-> enum_variant_pattern(with_fields[i].fields[1])]

matches_enum(pattern, enum_info) ==
    \E i \in DOMAIN enum_patterns(enum_info) :
        patterns_compatible(pattern, enum_patterns(enum_info)[i])

\* <<matched_patterns, total_patterns>>; the source returns their quotient
\* when total_patterns > 0
check_pattern_compatibility(remaining_patterns, enum_info) ==
    <<Cardinality({i \in DOMAIN remaining_patterns :
                      matches_enum(shape_pattern(remaining_patterns[i][2]), enum_info)}),
      Len(remaining_patterns)>>

\* the name given to a field typed as a known enum (lines 544-548, 734-738,
\* 948-952)
derived_enum_field_name(type_name) ==
    IF Contains(ToLowercase(type_name), "variant")
    THEN ToLowercase(TrimEndMatches(type_name, "Variant"))
    ELSE ToLowercase(type_name) \o "_type"

\* original_shapes.iter().find_map(|s| s.metadata.original_enum_field_name)
RECURSIVE first_original_enum_field_name(_)
first_original_enum_field_name(original_shapes) ==
    IF original_shapes = <<>> THEN None
    ELSE IF Head(original_shapes).metadata.original_enum_field_name # None
         THEN Head(original_shapes).metadata.original_enum_field_name
         ELSE first_original_enum_field_name(Tail(original_shapes))

create_mixed_fold_back_result(folded_variant_indices, non_matching_variant_indices, common_field, enum_type_name, all_variants, base_name, original_shapes) ==
    LET original == first_original_enum_field_name(original_shapes)
        enum_field_name ==
            IF original # None THEN original[1] ELSE derived_enum_field_name(enum_type_name)
        folded_variant ==
            ShapeVariant(TrimEndMatches(enum_type_name, "Variant") \o "Pattern",
                         <<common_field, ShapeField(enum_field_name, enum_type_name, TRUE)>>)
        folded == IF folded_variant_indices # <<>> THEN <<folded_variant>> ELSE <<>>
        rest == [k \in DOMAIN non_matching_variant_indices |->
                    all_variants[non_matching_variant_indices[k]]]
    IN  complex_enum(base_name, <<>>, folded \o rest)

\* the last field of that name (the loop of lines 474-480 overwrites)
LastField(fs, n) == fs[CHOOSE i \in DOMAIN fs : fs[i].name = n /\ \A j \in (i + 1)..Len(fs) : fs[j].name # n]

untagged_enums(kt) == {n \in DOMAIN kt : kt[n].kind = "Enum" /\ kt[n].is_untagged}

\* The results try_fold_back_with_common_field can return: the loop over
\* known_types (hash order) returns at the first untagged enum whose
\* compatibility is at least 0.7, so any such enum can be the one.  Empty: None.
try_fold_back_with_common_field(variant_indices, common_field_name, variants, base_name, original_shapes, kt) ==
    LET common_field == LastField(variants[variant_indices[1]].fields, common_field_name)
        remaining_patterns ==
            [k \in DOMAIN variant_indices |->
                <<variant_indices[k],
                  SelectSeq(variants[variant_indices[k]].fields,
                            LAMBDA f : f.name # common_field_name)>>]
        non_matching_variants ==
            SortedSeq((DOMAIN variants) \ Range(variant_indices))
        compatible(type_name) ==
            LET c == check_pattern_compatibility(remaining_patterns, kt[type_name])
            IN  c[2] > 0 /\ 10 * c[1] >= 7 * c[2]
    IN  {IF non_matching_variants # <<>>
         THEN create_mixed_fold_back_result(variant_indices, non_matching_variants,
                                            common_field, type_name, variants, base_name,
                                            original_shapes)
         ELSE simple_struct(base_name,
                            <<common_field,
                              ShapeField(derived_enum_field_name(type_name), type_name, TRUE)>>) :
            type_name \in {n \in untagged_enums(kt) : compatible(n)}}

variants_with_field(variants, field_name) ==
    SortedSeq({i \in DOMAIN variants : field_name \in FieldNames(variants[i].fields)})

\* The loop over all_field_names (hash order) returns the first fold-back
\* found, so any field shared by at least min_variants variants that folds
\* back can be the one.
try_find_common_field_fold_back(variants, min_variants, base_name, original_shapes, kt) ==
    IF Len(variants) < min_variants THEN {}
    ELSE UNION {try_fold_back_with_common_field(variants_with_field(variants, field_name),
                                                field_name, variants, base_name,
                                                original_shapes, kt) :
                   field_name \in
                       {n \in UNION {FieldNames(variants[i].fields) : i \in DOMAIN variants} :
                           Len(variants_with_field(variants, n)) >= min_variants}}

RECURSIVE try_pattern_fold_back_from(_, _, _, _, _)
try_pattern_fold_back_from(variants, common_field_threshold, base_name, original_shapes, kt) ==
    IF common_field_threshold < 1 THEN {}
    ELSE LET found == try_find_common_field_fold_back(variants, common_field_threshold,
                                                      base_name, original_shapes, kt)
         IN  IF found # {} THEN found
             ELSE try_pattern_fold_back_from(variants, common_field_threshold - 1,
                                             base_name, original_shapes, kt)

try_pattern_fold_back(variants, base_name, original_shapes, kt) ==
    try_pattern_fold_back_from(variants, Len(variants), base_name, original_shapes, kt)

\* lines 726-746: the field name recorded in the metadata of the first
\* original shape that came from this enum, else the derived name
RECURSIVE metadata_enum_field_name(_, _)
metadata_enum_field_name(original_shapes, enum_name) ==
    IF original_shapes = <<>> THEN derived_enum_field_name(enum_name)
    ELSE IF Head(original_shapes).metadata.source_enum_type = Some(enum_name)
         THEN IF Head(original_shapes).metadata.original_enum_field_name # None
              THEN Head(original_shapes).metadata.original_enum_field_name[1]
              ELSE derived_enum_field_name(enum_name)
         ELSE metadata_enum_field_name(Tail(original_shapes), enum_name)

\* the fields of a pattern, every one marked required
pattern_fields_all_required(pattern) ==
    [i \in DOMAIN pattern |-> ShapeField(pattern[i][1], pattern[i][2], TRUE)]

pattern_fields(pattern) ==
    [i \in DOMAIN pattern |-> ShapeField(pattern[i][1], pattern[i][2], pattern[i][3])]

\* None is <<>>, Some(result) is <<result>>
check_enum_compatibility(common_fields, variants, enum_name, enum_info, base_name, original_shapes) ==
    IF ~enum_info.is_untagged THEN None
    ELSE LET our_patterns == [i \in DOMAIN variants |-> shape_pattern(variants[i].fields)]
             matched == {i \in DOMAIN our_patterns : matches_enum(our_patterns[i], enum_info)}
             matched_patterns == Cardinality(matched)
             unmatched == SortedSeq((DOMAIN our_patterns) \ matched)
             new_variants ==
                 [k \in DOMAIN unmatched |->
                     ShapeVariant("NewVariant" \o ToString(unmatched[k]),
                                  pattern_fields(our_patterns[unmatched[k]]))]
             \* (our_patterns.len() as f64 * 0.8).ceil() as usize
             compatibility_threshold == (4 * Len(our_patterns) + 4) \div 5
         IN  IF common_fields # <<>> /\ matched_patterns > 0
             THEN LET final_fields ==
                          Append(common_fields,
                                 ShapeField(metadata_enum_field_name(original_shapes, enum_name),
                                            enum_name, TRUE))
                  IN  IF matched_patterns < Len(our_patterns) /\ new_variants # <<>>
                      THEN Some(struct_with_extended_enum(base_name, final_fields, enum_name,
                                                          new_variants))
                      ELSE Some(simple_struct(base_name, final_fields))
             ELSE IF matched_patterns >= compatibility_threshold
             THEN Some(simple_struct(base_name,
                           Append(common_fields,
                                  ShapeField(IF Contains(ToLowercase(enum_name), "variant")
                                             THEN "variant"
                                             ELSE ToLowercase(enum_name) \o "_type",
                                             enum_name, TRUE))))
             ELSE None

\* the loop over known_types (hash order) returns the first Some
try_enum_fold_back(common_fields, variants, base_name, original_shapes, kt) ==
    UNION {Range(check_enum_compatibility(common_fields, variants, n, kt[n], base_name,
                                          original_shapes)) :
              n \in {m \in DOMAIN kt : kt[m].kind = "Enum"}}

\* the results analyze_fold_back can return; empty: None
analyze_fold_back(common_fields, variants, base_name, original_shapes, kt) ==
    LET pattern == try_pattern_fold_back(variants, base_name, original_shapes, kt)
    IN  IF pattern # {} THEN pattern
        ELSE IF common_fields # <<>> /\ variants # <<>>
             THEN try_enum_fold_back(common_fields, variants, base_name, original_shapes, kt)
             ELSE {}

\* lines 120-150: the result when no fold-back was found
generic_decision(common_fields, final_variants, base_name) ==
    IF final_variants = <<>> THEN simple_struct(base_name, common_fields)
    ELSE IF common_fields = <<>> /\ Len(final_variants) = 1
         THEN simple_struct(base_name, final_variants[1].fields)
    ELSE IF Len(final_variants) = 1 /\ final_variants[1].fields = <<>>
         THEN simple_struct(base_name, common_fields)
    ELSE IF Len(final_variants) = 1
         THEN simple_struct(base_name,
                            clean_field_types(common_fields \o final_variants[1].fields))
    ELSE complex_enum(base_name, common_fields, final_variants)

\* lines 63-152 for one outcome of find_common_fields and of optimize_variants
optimize_with(common_fields, optimized_variants, shps, base_name, kt) ==
    LET final_variants == apply_recursive_optimization(optimized_variants)
        fold_back_result == analyze_fold_back(common_fields, final_variants, base_name, shps, kt)
    IN  IF fold_back_result # {} THEN fold_back_result
        ELSE {generic_decision(common_fields, final_variants, base_name)}

\* without the early return for a single shape
optimize_shapes_general_path(shps, base_name, kt) ==
    IF shps = <<>> THEN {simple_struct(base_name, <<>>)}
    ELSE UNION {UNION {optimize_with(common_fields, optimized_variants, shps, base_name, kt) :
                          optimized_variants \in
                              optimize_variants(remove_common_fields(shps, common_fields))} :
                   common_fields \in find_common_fields(shps)}

\* the EvolutionResults optimize_shapes can return
optimize_shapes(shps, base_name, kt) ==
    IF shps = <<>> THEN {simple_struct(base_name, <<>>)}
    ELSE IF Len(shps) = 1 THEN {simple_struct(base_name, shps[1].fields)}
    ELSE UNION {UNION {optimize_with(common_fields, optimized_variants, shps, base_name, kt) :
                          optimized_variants \in
                              optimize_variants(remove_common_fields(shps, common_fields))} :
                   common_fields \in find_common_fields(shps)}

-----------------------------------------------------------------------------
(* shape.rs: the shape expander *)

unwrap_option_type(type_str) ==
    IF StartsWith(type_str, "Option <") /\ EndsWith(type_str, ">")
    THEN Trim(SubSeq(type_str, 9, Len(type_str) - 1))
    ELSE type_str

RECURSIVE Flatten(_)
Flatten(seqs) == IF seqs = <<>> THEN <<>> ELSE Head(seqs) \o Flatten(Tail(seqs))

RECURSIVE Pow2(_)
Pow2(n) == IF n = 0 THEN 1 ELSE 2 * Pow2(n - 1)

\* twice the count instead of two to its power
num_combinations_doubled(num_optional) == 2 * num_optional

\* 1 << num_optional
num_combinations(num_optional) == Pow2(num_optional)

\* lines 186-228: one shape per subset of the optional (not required) fields
\* of a base shape, in the order of the counter i; bit pos of i decides the
\* pos-th optional field
expand_optional_fields(base_shape) ==
    LET fs == base_shape.fields
        optional_field_indices == SortedSeq({i \in DOMAIN fs : ~fs[i].is_required})
        num_optional == Len(optional_field_indices)
        position(idx) == CHOOSE pos \in 1..num_optional : optional_field_indices[pos] = idx
        included(i, idx) == (i \div Pow2(position(idx) - 1)) % 2 = 1
        combination(i) ==
            LET kept == SelectSeq([k \in DOMAIN fs |-> k],
                                  LAMBDA idx : fs[idx].is_required \/ included(i, idx))
            IN  Shape([k \in DOMAIN kept |->
                          IF fs[kept[k]].is_required THEN fs[kept[k]]
                          ELSE ShapeField(fs[kept[k]].name,
                                          unwrap_option_type(fs[kept[k]].field_type), TRUE)],
                      base_shape.metadata)
    IN  IF num_optional = 0 THEN <<base_shape>>
        ELSE [i \in 1..num_combinations(num_optional) |-> combination(i - 1)]

RECURSIVE expand_base_shapes(_, _, _)
RECURSIVE expand_struct_shapes(_, _)
RECURSIVE expand_enum_shapes(_, _, _)

\* lines 117-183: the loop over the fields, from the base shapes so far
expand_base_shapes(fields, base_shapes, kt) ==
    IF fields = <<>> THEN base_shapes
    ELSE LET field == Head(fields)
             field_type == IF field.is_optional THEN unwrap_option_type(field.field_type)
                           ELSE field.field_type
             inline(base_shape, untagged_shape) ==
                 Shape(base_shape.fields \o
                           [k \in DOMAIN untagged_shape.fields |->
                               ShapeField(untagged_shape.fields[k].name,
                                          untagged_shape.fields[k].field_type,
                                          ~field.is_optional
                                              /\ untagged_shape.fields[k].is_required)],
                       ShapeMetadata_with_enum_field(field.name, field_type))
         IN  IF /\ field_type \in DOMAIN kt
                /\ kt[field_type].kind = "Enum"
                /\ kt[field_type].is_untagged
             THEN LET untagged_shapes == expand_enum_shapes(kt[field_type].variants, TRUE, kt)
                      new_shapes ==
                          Flatten([b \in DOMAIN base_shapes |->
                                      (IF field.is_optional THEN <<base_shapes[b]>> ELSE <<>>)
                                      \o [u \in DOMAIN untagged_shapes |->
                                             inline(base_shapes[b], untagged_shapes[u])]])
                  IN  expand_base_shapes(Tail(fields), new_shapes, kt)
             ELSE expand_base_shapes(
                      Tail(fields),
                      [b \in DOMAIN base_shapes |->
                          Shape(Append(base_shapes[b].fields,
                                       ShapeField(field.name, field.field_type,
                                                  ~field.is_optional)),
                                base_shapes[b].metadata)],
                      kt)

expand_struct_shapes(fields, kt) ==
    LET base_shapes == expand_base_shapes(fields, <<Shape(<<>>, ShapeMetadata_new)>>, kt)
    IN  Flatten([b \in DOMAIN base_shapes |-> expand_optional_fields(base_shapes[b])])

\* the discriminator without the quotes around the variant name
tag_field_unquoted(variant_name) == ShapeField("tag", variant_name, TRUE)

tag_field(variant_name) == ShapeField("tag", "\"" \o variant_name \o "\"", TRUE)

expand_enum_shapes(variants, is_untagged, kt) ==
    Flatten([v \in DOMAIN variants |->
        IF variants[v].fields # None
        THEN LET variant_shapes == expand_struct_shapes(variants[v].fields[1], kt)
             IN  [k \in DOMAIN variant_shapes |->
                     IF ~is_untagged
                     THEN Shape(<<tag_field(variants[v].name)>> \o variant_shapes[k].fields,
                                variant_shapes[k].metadata)
                     ELSE variant_shapes[k]]
        ELSE IF ~is_untagged
             THEN <<Shape(<<tag_field(variants[v].name)>>, ShapeMetadata_new)>>
             ELSE <<>>])

expand_type(type_info, kt) ==
    IF type_info.kind = "Struct" THEN expand_struct_shapes(type_info.fields, kt)
    ELSE expand_enum_shapes(type_info.variants, type_info.is_untagged, kt)

-----------------------------------------------------------------------------
(* evolution.rs: the orchestrator *)

\* serde_json::Value.  A number records which of is_i64 / is_u64 holds;
\* an object is the list of its (key, value) entries in the map's
\* iteration order.
JsonNull == [t |-> "Null"]
JsonBool == [t |-> "Bool"]
JsonNumber(repr) == [t |-> "Number", repr |-> repr]
JsonString == [t |-> "String"]
JsonArray(items) == [t |-> "Array", items |-> items]
JsonObject(entries) == [t |-> "Object", entries |-> entries]

RECURSIVE infer_json_type(_)
infer_json_type(value) ==
    IF value.t = "Null" THEN "Option<()>"
    ELSE IF value.t = "Bool" THEN "bool"
    ELSE IF value.t = "Number"
         THEN IF value.repr = "i64" THEN "i64"
              ELSE IF value.repr = "u64" THEN "u64" ELSE "f64"
    ELSE IF value.t = "String" THEN "String"
    ELSE IF value.t = "Array"
         THEN IF value.items = <<>> THEN "Vec<serde_json::Value>"
              ELSE "Vec<" \o infer_json_type(value.items[1]) \o ">"
    ELSE "serde_json::Map<String, serde_json::Value>"

analyze_json_shape(value) ==
    IF value.t = "Object"
    THEN Shape([i \in DOMAIN value.entries |->
                   ShapeField(value.entries[i][1], infer_json_type(value.entries[i][2]), TRUE)],
               ShapeMetadata_new)
    ELSE Shape(<<ShapeField("value", infer_json_type(value), TRUE)>>, ShapeMetadata_new)

\* ApiEvolution::types_compatible
evolution_types_compatible(existing_type, target_type) ==
    \/ existing_type = target_type
    \/ Contains(existing_type, target_type)
    \/ Contains(target_type, existing_type)

\* for each target field the first existing field of the same name scores
RECURSIVE calculate_struct_compatibility(_, _)
calculate_struct_compatibility(fields, target_fields) ==
    IF target_fields = <<>> THEN 0
    ELSE LET target_field == Head(target_fields)
             here == IF target_field.name \in FieldNames(fields)
                     THEN 2 + (IF evolution_types_compatible(
                                      FindField(fields, target_field.name).field_type,
                                      target_field.field_type)
                               THEN 3 ELSE 0)
                     ELSE 0
         IN  here + calculate_struct_compatibility(fields, Tail(target_fields))

calculate_compatibility_score(type_info, target_shape) ==
    IF type_info.kind = "Struct"
    THEN calculate_struct_compatibility(type_info.fields, target_shape.fields)
    ELSE 1

\* any type of positive score, maximal or not
find_any_matching_type(kt, target_shape) ==
    {n \in DOMAIN kt : calculate_compatibility_score(kt[n], target_shape) > 0}

\* The names find_best_matching_type can return: the loop over
\* existing_types.values() (hash order) keeps the first type whose score is
\* strictly greater than every score before it, so any type of maximal
\* positive score can be the one.  Empty: None.
find_best_matching_type(kt, target_shape) ==
    {n \in DOMAIN kt :
        /\ calculate_compatibility_score(kt[n], target_shape) > 0
        /\ \A m \in DOMAIN kt :
              calculate_compatibility_score(kt[m], target_shape)
                  <= calculate_compatibility_score(kt[n], target_shape)}

calculate_variant_compatibility(json_shape, variant) ==
    IF variant.fields = None THEN 0
    ELSE LET variant_fields == variant.fields[1]
             matched == {i \in DOMAIN json_shape.fields :
                            json_shape.fields[i].name \in FieldNames(variant_fields)}
             typed == {i \in matched :
                          evolution_types_compatible(
                              json_shape.fields[i].field_type,
                              FindField(variant_fields, json_shape.fields[i].name).field_type)}
             matched_fields == Cardinality(matched)
             variant_field_count == Len(variant_fields)
             \* (coverage * 10.0) as usize, coverage an f32 quotient: the cast
             \* truncates
             bonus == (10 * matched_fields)
                          \div (IF variant_field_count > 1 THEN variant_field_count ELSE 1)
             score == 10 * matched_fields + 5 * Cardinality(typed) + bonus
             unmatched_json_fields == Len(json_shape.fields) - matched_fields
         IN  IF unmatched_json_fields > variant_field_count
             THEN (IF score > unmatched_json_fields * 2
                   THEN score - unmatched_json_fields * 2 ELSE 0)
             ELSE score

\* lines 363-375: the variant-only fields, made optional
RECURSIVE merge_variant_fields(_, _)
merge_variant_fields(merged_fields, variant_fields) ==
    IF variant_fields = <<>> THEN merged_fields
    ELSE LET field == Head(variant_fields)
         IN  IF field.name \in FieldNames(merged_fields)
             THEN merge_variant_fields(merged_fields, Tail(variant_fields))
             ELSE merge_variant_fields(
                      Append(merged_fields,
                             ShapeField(field.name,
                                        IF mentions_option(field.field_type)
                                        THEN field.field_type
                                        ELSE "Option<" \o field.field_type \o ">",
                                        FALSE)),
                      Tail(variant_fields))

merge_shapes(json_shape, variant_shape) ==
    Shape(merge_variant_fields(json_shape.fields, variant_shape.fields), ShapeMetadata_new)

\* variant_scores.sort_by(|a, b| b.1.cmp(&a.1)): stable, highest score first;
\* an entry is <<variant, score>>
RECURSIVE insert_by_score(_, _)
insert_by_score(sorted, x) ==
    IF sorted = <<>> THEN <<x>>
    ELSE IF x[2] > Head(sorted)[2] THEN <<x>> \o sorted
         ELSE <<Head(sorted)>> \o insert_by_score(Tail(sorted), x)

RECURSIVE sort_by_score_acc(_, _)
sort_by_score_acc(s, sorted) ==
    IF s = <<>> THEN sorted ELSE sort_by_score_acc(Tail(s), insert_by_score(sorted, Head(s)))

Panic == [kind |-> "Panic"]

\* Some(shapes), or Panic: &variant_scores[1..] on an empty Vec
\* (line 298) is a slice index out of range
evolve_with_enum_variants(json_shape, variants, kt) ==
    LET variant_scores ==
            sort_by_score_acc([i \in DOMAIN variants |->
                                  <<variants[i],
                                    calculate_variant_compatibility(json_shape, variants[i])>>],
                              <<>>)
        best_variant == variant_scores[1][1]
        best_score == variant_scores[1][2]
        from_best ==
            IF best_score > 0
            THEN IF best_variant.fields # None
                 THEN LET variant_shapes == expand_struct_shapes(best_variant.fields[1], kt)
                      IN  [i \in DOMAIN variant_shapes |->
                              merge_shapes(json_shape, variant_shapes[i])]
                 ELSE <<json_shape>>
            ELSE <<json_shape>>
        others ==
            Flatten([i \in 1..(Len(variant_scores) - 1) |->
                LET variant == variant_scores[i + 1][1]
                    score == variant_scores[i + 1][2]
                IN  IF score > 0 /\ score >= best_score \div 2 /\ variant.fields # None
                    THEN expand_struct_shapes(variant.fields[1], kt)
                    ELSE <<>>])
    IN  IF variant_scores = <<>> THEN Panic
        ELSE [kind |-> "Shapes", shapes |-> from_best \o others]

\* The outcomes of evolve_with_json: the shape lists it can hand to the
\* optimizer, each as [kind |-> "Shapes", shapes |-> ...], or Panic
evolve_shape_sets(kt, json_value, type_name) ==
    LET json_shape == analyze_json_shape(json_value)
    IN  IF type_name \in DOMAIN kt
        THEN {[kind |-> "Shapes", shapes |-> <<json_shape>> \o expand_type(kt[type_name], kt)]}
        ELSE IF find_best_matching_type(kt, json_shape) = {}
        THEN {[kind |-> "Shapes", shapes |-> <<json_shape>>]}
        ELSE {IF kt[n].kind = "Struct"
              THEN [kind |-> "Shapes", shapes |-> <<json_shape>> \o expand_type(kt[n], kt)]
              ELSE LET evolved == evolve_with_enum_variants(json_shape, kt[n].variants, kt)
                   IN  IF evolved = Panic THEN Panic
                       ELSE [kind |-> "Shapes", shapes |-> <<json_shape>> \o evolved.shapes] :
                 n \in find_best_matching_type(kt, json_shape)}

\* what evolve_with_json can end with: an EvolutionResult or a panic
evolve_with_json(kt, json_value, type_name) ==
    UNION {IF all_shapes = Panic THEN {Panic}
           ELSE optimize_shapes(all_shapes.shapes, type_name, kt) :
              all_shapes \in evolve_shape_sets(kt, json_value, type_name)}

-----------------------------------------------------------------------------
(* generator.rs: the emitted declarations *)

\* the type text written for a field (lines 75-82, 116-122, 160-167)
emitted_field_type(field) ==
    IF field.is_required THEN field.field_type
    ELSE IF StartsWith(field.field_type, "Option<") \/ StartsWith(field.field_type, "Option <")
         THEN field.field_type
         ELSE "Option<" \o field.field_type \o ">"

emitted_fields(fields) ==
    [i \in DOMAIN fields |-> <<fields[i].name, emitted_field_type(fields[i])>>]

\* a declaration of the generated text: its keyword, its name and its
\* <<field name, type text>> lines
generate_struct_code(name, fields) ==
    [item |-> "struct", name |-> name, fields |-> emitted_fields(fields)]

\* the same test without the look at the common fields
is_optional_extra_case_any_common(common_fields, variants) ==
    /\ Len(variants) = 2
    /\ \E i \in DOMAIN variants : variants[i].fields = <<>>
    /\ Len(SelectSeq(variants, LAMBDA v : v.fields # <<>>)) = 1

\* lines 97-101: common fields + one variant with fields + one empty variant
is_optional_extra_case(common_fields, variants) ==
    /\ Len(variants) = 2
    /\ \E i \in DOMAIN variants : variants[i].fields = <<>>
    /\ Len(SelectSeq(variants, LAMBDA v : v.fields # <<>>)) = 1
    /\ common_fields # <<>>

generate_complex_enum_code(name, common_fields, variants) ==
    LET non_empty_variants == SelectSeq(variants, LAMBDA v : v.fields # <<>>)
        base == IF common_fields # <<>> THEN <<<<"base", name \o "Base">>>> ELSE <<>>
    IN  IF is_optional_extra_case(common_fields, variants)
        THEN <<generate_struct_code(name \o "Extra", non_empty_variants[1].fields),
               [item |-> "struct", name |-> name,
                fields |-> Append(emitted_fields(common_fields),
                                  <<"extra", "Option<" \o name \o "Extra>">>)]>>
        ELSE (IF common_fields # <<>>
              THEN <<generate_struct_code(name \o "Base", common_fields)>>
              ELSE <<>>)
             \o <<[item |-> "enum", name |-> name,
                   variants |-> [v \in DOMAIN variants |->
                                    [name |-> variants[v].name,
                                     fields |-> base \o emitted_fields(variants[v].fields)]]]>>

generate_rust_code(r) ==
    IF r.kind = "SimpleStruct" THEN <<generate_struct_code(r.name, r.fields)>>
    ELSE IF r.kind = "ComplexEnum"
         THEN generate_complex_enum_code(r.name, r.common_fields, r.variants)
         ELSE <<generate_struct_code(r.struct_name, r.struct_fields)>>

-----------------------------------------------------------------------------
(* Inputs *)

\* the longest list of plain shapes, of typed shapes, and the most fields of
\* a declared record
MaxShapes == 3
MaxTypedShapes == 2
MaxFields == 3

NoTypes == [n \in {} |-> n]

struct_variant(n, field_names) ==
    VariantInfo(n, Some([i \in DOMAIN field_names |->
                            FieldInfo(field_names[i], "String", FALSE)]))

\* #[serde(untagged)] enum U { A { a: String }, B { b: String }, C { c: String } }
UnionU ==
    EnumType("U", <<struct_variant("A", <<"a">>), struct_variant("B", <<"b">>),
                    struct_variant("C", <<"c">>)>>, TRUE)

\* #[serde(untagged)] enum V { P { a: String }, Q { b: String } }
UnionV ==
    EnumType("V", <<struct_variant("P", <<"a">>), struct_variant("Q", <<"b">>)>>, TRUE)

KnownU == [n \in {"U"} |-> UnionU]
KnownUV == [n \in {"U", "V"} |-> IF n = "U" THEN UnionU ELSE UnionV]

\* a shape of required String fields, in the order of `names`
NameShape(names, S) ==
    LET kept == SelectSeq(names, LAMBDA n : n \in S)
    IN  Shape([i \in DOMAIN kept |-> ShapeField(kept[i], "String", TRUE)], ShapeMetadata_new)

PlainNames == <<"a", "b", "x">>

PlainShapes == {NameShape(PlainNames, S) : S \in SUBSET Range(PlainNames)}

PlainShapeLists == UNION {[1..k -> PlainShapes] : k \in 0..MaxShapes}

\* what a shape can hold under one name: nothing, a required field of any of
\* the types, or a non-required field of an Option type
TypedOptions(n) ==
    {<<>>}
    \cup {<<ShapeField(n, t, TRUE)>> : t \in {"String", "Option<String>", "Option < String >"}}
    \cup {<<ShapeField(n, t, FALSE)>> : t \in {"Option<String>", "Option < String >"}}

TypedShapes == {Shape(fa \o fb, ShapeMetadata_new) : fa \in TypedOptions("a"), fb \in TypedOptions("b")}

TypedShapeLists == UNION {[1..k -> TypedShapes] : k \in 1..MaxTypedShapes}

\* lists with more names than PlainNames: a field k common to all shapes
\* next to a fold-back, and five pairwise unmergeable shapes
ScenarioShapeLists ==
    LET names == <<"k", "x", "a", "b", "c", "d">>
        sh(S) == NameShape(names, S)
    IN  {<<sh({"k", "x", "a"}), sh({"k", "a"}), sh({"k", "x", "b"})>>,
         <<sh({"x", "a"}), sh({"x", "b"}), sh({"x", "c"}), sh({"x", "d"}), sh({})>>}

-----------------------------------------------------------------------------
(* The optimizer under every input *)

InitOpt ==
    /\ \/ known \in {NoTypes, KnownU, KnownUV} /\ shapes \in PlainShapeLists
       \/ known = NoTypes /\ shapes \in TypedShapeLists
       \/ known = KnownU /\ shapes \in ScenarioShapeLists
    /\ sample = None
    /\ target = "T"
    /\ pc = "start"
    /\ result = None
    /\ result2 = None
    /\ generated_names = <<>>
    /\ existing_structs = <<>>
    /\ schema = None
    /\ merge_strategy = "Optional"
    /\ original_source = ""
    /\ replacements = <<>>

\* optimize_shapes(shapes, target)
OptimizeShapes ==
    /\ pc = "start"
    /\ result' \in optimize_shapes(shapes, target, known)
    /\ pc' = "optimized"
    /\ UNCHANGED <<known, shapes, sample, target, result2, original_source, replacements, existing_structs, schema, merge_strategy, generated_names>>

\* a second optimize_shapes(shapes, target) on a table of the same content
OptimizeShapesAgain ==
    /\ pc = "optimized"
    /\ result2' \in optimize_shapes(shapes, target, known)
    /\ pc' = "repeated"
    /\ UNCHANGED <<known, shapes, sample, target, result, original_source, replacements, existing_structs, schema, merge_strategy, generated_names>>

\* result.generate_rust_code()
GenerateRustCode ==
    /\ pc = "optimized"
    /\ result2' = generate_rust_code(result)
    /\ pc' = "generated"
    /\ UNCHANGED <<known, shapes, sample, target, result, original_source, replacements, existing_structs, schema, merge_strategy, generated_names>>

\* steps 1 to 3 of optimize_shapes: the residual shapes and their clustering;
\* clusters lists, per variant, the indices of the residual shapes it was
\* built from
OptimizeVariants ==
    /\ pc = "start"
    /\ Len(shapes) >= 2
    /\ \E common_fields \in find_common_fields(shapes) :
          LET residual == remove_common_fields(shapes, common_fields)
          IN  \E variants \in optimize_variants(residual) :
                  result' = [residual |-> residual,
                             clusters |-> mergeable_clusters(residual, 1, {}),
                             variants |-> variants]
    /\ pc' = "clustered"
    /\ UNCHANGED <<known, shapes, sample, target, result2, original_source, replacements, existing_structs, schema, merge_strategy, generated_names>>

\* merge_shapes(json_shape, variant_shape)
MergeShapes ==
    /\ pc = "start"
    /\ Len(shapes) = 2
    /\ result' = merge_shapes(shapes[1], shapes[2])
    /\ pc' = "merged"
    /\ UNCHANGED <<known, shapes, sample, target, result2, original_source, replacements, existing_structs, schema, merge_strategy, generated_names>>

\* the emitted record parsed back, expanded with expand_struct_shapes and
\* optimized again; result2 keeps the re-expanded shapes and the new result
ReExpand ==
    /\ pc = "generated"
    /\ result.kind = "SimpleStruct"
    /\ LET fields == [i \in DOMAIN result2[1].fields |-> parse_field(result2[1].fields[i])]
           reexpanded == expand_struct_shapes(fields, known)
       IN  \E r \in optimize_shapes(reexpanded, target, known) :
               result2' = [reexpanded |-> reexpanded, result |-> r]
    /\ pc' = "reoptimized"
    /\ UNCHANGED <<known, shapes, sample, target, result, original_source, replacements, existing_structs, schema, merge_strategy, generated_names>>

NextOpt ==
    \/ OptimizeShapes
    \/ OptimizeShapesAgain
    \/ GenerateRustCode
    \/ OptimizeVariants
    \/ MergeShapes
    \/ ReExpand

SpecOpt == InitOpt /\ [][NextOpt]_vars

-----------------------------------------------------------------------------
(* Properties of the optimizer *)

InputFieldNames == UNION {FieldNames(shapes[i].fields) : i \in DOMAIN shapes}

\* every field an EvolutionResult holds
ResultFields(r) ==
    IF r.kind = "SimpleStruct" THEN r.fields
    ELSE IF r.kind = "ComplexEnum"
         THEN r.common_fields \o Flatten([v \in DOMAIN r.variants |-> r.variants[v].fields])
         ELSE r.struct_fields
                  \o Flatten([v \in DOMAIN r.new_enum_variants |-> r.new_enum_variants[v].fields])

\* the field names of the variants of a known union
UnionFieldNames(kt, type_name) ==
    IF type_name \in DOMAIN kt /\ kt[type_name].kind = "Enum"
    THEN UNION {FieldNames(kt[type_name].variants[v].fields[1]) :
                   v \in {w \in DOMAIN kt[type_name].variants :
                              kt[type_name].variants[w].fields # None}}
    ELSE {}

\* the names a result accounts for: its own fields and the fields of the
\* known unions its fields are typed as
OutputFieldNames(r, kt) ==
    FieldNames(ResultFields(r))
        \cup UNION {UnionFieldNames(kt, f.field_type) : f \in Range(ResultFields(r))}

\* C1: after optimize_shapes on two or more shapes, every field name of an
\* input shape is a field of the result, of one of its variants, or of a
\* variant of a known union that a field of the result is typed as.
C1_NoFieldNameDropped ==
    (pc = "optimized" /\ Len(shapes) >= 2)
        => InputFieldNames \subseteq OutputFieldNames(result, known)

SameCluster(clusters, i, j) == \E c \in DOMAIN clusters : {i, j} \subseteq Range(clusters[c])

\* C2 as stated: after clustering, two residual shapes whose name sets differ
\* by exactly one name are in the same variant, and two whose name sets
\* differ by two or more names are never in the same variant.
C2_PairwiseThreshold ==
    pc = "clustered" =>
        \A i, j \in DOMAIN result.residual :
            i < j =>
                LET d == count_field_differences(result.residual[i], result.residual[j])
                IN  /\ d = 1 => SameCluster(result.clusters, i, j)
                    /\ d >= 2 => ~SameCluster(result.clusters, i, j)

\* C2 amended: clustering is relative to each cluster's base shape.  The
\* clusters come in increasing order of their base (first) index; a later
\* shape is in the cluster of base i exactly when no earlier cluster took it
\* and its name set differs from the base's by at most one name.  There is
\* one variant per cluster.
C2_ClusteredAroundBase ==
    pc = "clustered" =>
        LET residual == result.residual
            clusters == result.clusters
        IN  /\ Len(result.variants) = Len(clusters)
            /\ \A c \in DOMAIN clusters :
                  /\ \A d \in 1..(c - 1) : clusters[d][1] < clusters[c][1]
                  /\ \A j \in DOMAIN residual :
                        j \in Range(clusters[c]) <=>
                            \/ j = clusters[c][1]
                            \/ /\ j > clusters[c][1]
                               /\ \A d \in 1..(c - 1) : j \notin Range(clusters[d])
                               /\ count_field_differences(residual[clusters[c][1]],
                                                          residual[j]) <= 1

\* a clustering that separates two shapes one name apart: the later one was
\* taken by an earlier base
C2_Witness ==
    /\ pc = "clustered"
    /\ \E i, j \in DOMAIN result.residual :
          /\ count_field_differences(result.residual[i], result.residual[j]) = 1
          /\ ~SameCluster(result.clusters, i, j)
    /\ \E c \in DOMAIN result.clusters : Len(result.clusters[c]) >= 2

\* C4: two runs of optimize_shapes on the same shape list, target name and
\* known types return the same result.
C4_SameResultOnRerun == pc = "repeated" => result2 = result

\* the runs of steps 1 to 4 of optimize_shapes on the current input: the
\* common fields and the variants handed to analyze_fold_back
FoldBackInputs ==
    IF Len(shapes) < 2 THEN {}
    ELSE UNION {{[common_fields |-> common_fields, variants |-> variants] :
                    variants \in optimize_variants(remove_common_fields(shapes, common_fields))} :
                   common_fields \in find_common_fields(shapes)}

without_field(fields, n) == SelectSeq(fields, LAMBDA f : f.name # n)

\* at least 70% of the variants `indices`, with field n taken out, match a
\* variant of the known union u
FoldsOnto(variants, indices, n, u) ==
    LET matched == {i \in Range(indices) :
                       matches_enum(shape_pattern(without_field(variants[i].fields, n)), known[u])}
    IN  Len(indices) > 0 /\ 10 * Cardinality(matched) >= 7 * Len(indices)

\* the full matches of a run: a field name shared by all its variants and a
\* known untagged union the remaining patterns fold onto
FullMatches(run) ==
    {m \in (UNION {FieldNames(run.variants[i].fields) : i \in DOMAIN run.variants})
                \X untagged_enums(known) :
        /\ \A i \in DOMAIN run.variants : m[1] \in FieldNames(run.variants[i].fields)
        /\ FoldsOnto(run.variants, [i \in DOMAIN run.variants |-> i], m[1], m[2])}

\* C8: when a field name is shared by all residual variants and the remaining
\* patterns are at least 70% compatible with a known untagged union, the
\* result is a SimpleStruct made of the common fields of all input shapes,
\* then the shared field, then one required field typed as that union.
C8_FullMatchKeepsCommonFields ==
    pc = "optimized" =>
        \A run \in FoldBackInputs :
            FullMatches(run) # {} =>
                /\ result.kind = "SimpleStruct"
                /\ \E r \in FoldBackInputs, m \in FullMatches(run) :
                      LET n == Len(r.common_fields)
                      IN  /\ Len(result.fields) = n + 2
                          /\ SubSeq(result.fields, 1, n) = r.common_fields
                          /\ result.fields[n + 1].name = m[1]
                          /\ result.fields[n + 2].field_type = m[2]
                          /\ result.fields[n + 2].is_required

\* C9: when pattern fold-back folds only some of the variants, the result is
\* a ComplexEnum without common fields whose variants are the folded variant
\* (the shared field, then a field typed as the union) followed by the
\* variants that took no part, unchanged; and every variant the folded one
\* replaces has a remaining pattern that matches a variant of the union.
C9_PartialFoldLosesNothing ==
    pc = "optimized" =>
        \A run \in FoldBackInputs :
            LET folded == try_pattern_fold_back(run.variants, target, shapes, known)
            IN  (result \in folded /\ result.kind = "ComplexEnum") =>
                    \E n \in UNION {FieldNames(run.variants[i].fields) : i \in DOMAIN run.variants},
                       u \in untagged_enums(known) :
                        LET part == variants_with_field(run.variants, n)
                            rest == SortedSeq(DOMAIN run.variants \ Range(part))
                        IN  /\ result.common_fields = <<>>
                            /\ Len(result.variants) = 1 + Len(rest)
                            /\ Len(result.variants[1].fields) = 2
                            /\ result.variants[1].fields[1].name = n
                            /\ result.variants[1].fields[2].field_type = u
                            /\ \A k \in DOMAIN rest :
                                  result.variants[k + 1] = run.variants[rest[k]]
                            /\ \A i \in Range(part) :
                                  matches_enum(
                                      shape_pattern(without_field(run.variants[i].fields, n)),
                                      known[u])

\* Option directly inside Option, in any spacing
DoubleOption(t) == Contains(clean_type_string(t), "Option<Option<")

\* the field types a state holds as the outcome of the call it ran
OutcomeTypes ==
    IF pc = "clustered"
    THEN {f.field_type : f \in UNION {Range(result.variants[v].fields) : v \in DOMAIN result.variants}}
    ELSE IF pc = "merged" THEN {f.field_type : f \in Range(result.fields)}
    ELSE IF pc \in {"optimized", "repeated"} THEN {f.field_type : f \in Range(ResultFields(result))}
    ELSE IF pc = "generated"
         THEN UNION {IF result2[d].item = "struct"
                     THEN {f[2] : f \in Range(result2[d].fields)}
                     ELSE UNION {{f[2] : f \in Range(result2[d].variants[v].fields)} :
                                    v \in DOMAIN result2[d].variants} :
                        d \in DOMAIN result2}
         ELSE {}

InputTypes == {f.field_type : f \in UNION {Range(shapes[i].fields) : i \in DOMAIN shapes}}

\* C10: from shapes whose field types carry at most one Option layer, no
\* field type returned by cluster merging, by merge_shapes or by
\* optimize_shapes, and no field type emitted, is an Option of an Option.
C10_SingleOptionLayer ==
    (\A t \in InputTypes : ~DoubleOption(t)) => \A t \in OutcomeTypes : ~DoubleOption(t)

\* a field whose type was already an Option, in the spaced spelling, has
\* been made optional by a merge and still has that type
C10_Witness ==
    /\ pc \in {"clustered", "merged"}
    /\ \E i \in DOMAIN shapes : \E f \in Range(shapes[i].fields) :
          /\ f.field_type = "Option < String >"
          /\ \E j \in DOMAIN shapes : f.name \notin FieldNames(shapes[j].fields)
          /\ IF pc = "merged"
             THEN \E g \in Range(result.fields) :
                      g.name = f.name /\ g.field_type = f.field_type /\ ~g.is_required
             ELSE \E v \in DOMAIN result.variants :
                      /\ StartsWith(result.variants[v].name, "Merged")
                      /\ \E g \in Range(result.variants[v].fields) :
                             g.name = f.name /\ g.field_type = f.field_type

-----------------------------------------------------------------------------
(* The expander under every declared record *)

\* what a declared field can be: a plain type, an Option (the parser prints
\* the type with spaces and sets is_optional from the "Option <" prefix), the
\* union U, or an Option of it
DeclaredFields(n) ==
    {FieldInfo(n, "String", FALSE), FieldInfo(n, "Option < String >", TRUE),
     FieldInfo(n, "U", FALSE), FieldInfo(n, "Option < U >", TRUE)}

DeclaredNames == <<"f1", "f2", "f3", "f4", "f5">>

\* the field lists of a record of up to MaxFields fields
DeclaredFieldLists ==
    UNION {Product([i \in 1..k |-> DeclaredFields(DeclaredNames[i])]) : k \in 0..MaxFields}

InitExpand ==
    /\ target = "User"
    /\ \E fields \in DeclaredFieldLists, with_union \in BOOLEAN :
          known = [n \in (IF with_union THEN {"User", "U"} ELSE {"User"}) |->
                      IF n = "U" THEN UnionU ELSE StructType("User", fields)]
    /\ shapes = <<>>
    /\ sample = None
    /\ pc = "start"
    /\ result = None
    /\ result2 = None
    /\ generated_names = <<>>
    /\ existing_structs = <<>>
    /\ schema = None
    /\ merge_strategy = "Optional"
    /\ original_source = ""
    /\ replacements = <<>>

\* expand_type(known[target])
ExpandType ==
    /\ pc = "start"
    /\ shapes' = expand_type(known[target], known)
    /\ pc' = "expanded"
    /\ UNCHANGED <<known, sample, target, result, result2, original_source, replacements, existing_structs, schema, merge_strategy, generated_names>>

\* the loop of expand_struct_shapes over the fields of the target record
\* (lines 117-183): the base shapes before the optional fields are expanded
ExpandBaseShapes ==
    /\ pc = "start"
    /\ known[target].kind = "Struct"
    /\ shapes' = expand_base_shapes(known[target].fields, <<Shape(<<>>, ShapeMetadata_new)>>, known)
    /\ pc' = "inlined"
    /\ UNCHANGED <<known, sample, target, result, result2, original_source, replacements, existing_structs, schema, merge_strategy, generated_names>>

NextExpand ==
    \/ ExpandType
    \/ ExpandBaseShapes

SpecExpand == InitExpand /\ [][NextExpand]_vars

declared == known[target].fields

\* a field whose type, taken out of its Option when optional, names a known
\* untagged union
IsUnionField(field) ==
    LET field_type == IF field.is_optional THEN unwrap_option_type(field.field_type)
                      ELSE field.field_type
    IN  field_type \in untagged_enums(known)

OptionalNames == {declared[i].name : i \in {j \in DOMAIN declared : declared[j].is_optional}}

RequiredNames == {declared[i].name : i \in {j \in DOMAIN declared : ~declared[j].is_optional}}

\* C3: a record with k optional fields and no field typed as a known
\* untagged union expands into exactly 2^k shapes, pairwise distinct; each
\* holds every required field, and each subset of the optional fields is the
\* optional part of exactly one shape.
C3_PowerSetOfOptionalFields ==
    (pc = "expanded" /\ \A i \in DOMAIN declared : ~IsUnionField(declared[i])) =>
        /\ Len(shapes) = Pow2(Cardinality(OptionalNames))
        /\ \A i, j \in DOMAIN shapes : i # j => shapes[i] # shapes[j]
        /\ \A i \in DOMAIN shapes :
              /\ RequiredNames \subseteq FieldNames(shapes[i].fields)
              /\ FieldNames(shapes[i].fields) \subseteq RequiredNames \cup OptionalNames
              /\ Len(shapes[i].fields) = Cardinality(FieldNames(shapes[i].fields))
        /\ \A S \in SUBSET OptionalNames :
              Cardinality({i \in DOMAIN shapes :
                              FieldNames(shapes[i].fields) \cap OptionalNames = S}) = 1
        /\ Cardinality(OptionalNames) = 0 =>
              shapes = <<Shape([i \in DOMAIN declared |->
                                   ShapeField(declared[i].name, declared[i].field_type, TRUE)],
                               ShapeMetadata_new)>>

\* a record with the most optional fields, expanded
C3_Witness ==
    /\ pc = "expanded"
    /\ \A i \in DOMAIN declared : ~IsUnionField(declared[i])
    /\ Cardinality(OptionalNames) = MaxFields
    /\ Len(shapes) = Pow2(MaxFields)

-----------------------------------------------------------------------------
(* The orchestrator under every declarations table and sample *)

\* struct User with any of name, age, email: age a 32-bit integer, email
\* declared String or Option<String>
UserFieldOptions ==
    <<{<<>>, <<FieldInfo("name", "String", FALSE)>>},
      {<<>>, <<FieldInfo("age", "i32", FALSE)>>, <<FieldInfo("age", "u32", FALSE)>>},
      {<<>>, <<FieldInfo("email", "String", FALSE)>>,
       <<FieldInfo("email", "Option < String >", TRUE)>>}>>

UserDeclarations == {StructType("User", Flatten(p)) : p \in Product(UserFieldOptions)}

\* enum Empty {}
EnumEmpty == EnumType("Empty", <<>>, FALSE)

\* enum Event { Login { name: String, email: String }, Ping }
EnumEvent ==
    EnumType("Event",
             <<VariantInfo("Login", Some(<<FieldInfo("name", "String", FALSE),
                                           FieldInfo("email", "String", FALSE)>>)),
               VariantInfo("Ping", None)>>,
             FALSE)

\* #[serde(untagged)] enum Contact { Mail { email: Option<String> } }
UnionContact ==
    EnumType("Contact",
             <<VariantInfo("Mail", Some(<<FieldInfo("email", "Option < String >", TRUE)>>))>>,
             TRUE)

\* struct Account { name: String, phone: String }
StructAccount ==
    StructType("Account", <<FieldInfo("name", "String", FALSE),
                            FieldInfo("phone", "String", FALSE)>>)

DeclarationSets ==
    {us \cup es : us \in {{}} \cup {{u} : u \in UserDeclarations},
                  es \in {{}, {EnumEmpty}, {EnumEvent}, {UnionContact}, {StructAccount}}}

\* the table parse_types builds: keyed by type name
TableOf(decls) == [n \in {d.name : d \in decls} |-> CHOOSE d \in decls : d.name = n]

\* the values a sample can hold under each key; the keys in the order
\* serde_json's map iterates them
SampleKeys == <<"age", "email", "name", "phone">>

SampleValues ==
    <<{JsonNumber("i64"), JsonNumber("f64")}, {JsonString, JsonNull}, {JsonString}, {JsonString}>>

SampleObjects ==
    {JsonObject(Flatten(p)) :
        p \in Product([i \in DOMAIN SampleKeys |->
                          {<<>>} \cup {<<<<SampleKeys[i], v>>>> : v \in SampleValues[i]}])}

Samples == SampleObjects \cup {JsonNull, JsonString, JsonArray(<<JsonNumber("u64")>>)}

InitEvolve ==
    /\ known \in {TableOf(decls) : decls \in DeclarationSets}
    /\ sample \in Samples
    /\ target \in {"User", "Event", "Order"}
    /\ shapes = <<>>
    /\ pc = "start"
    /\ result = None
    /\ result2 = None
    /\ generated_names = <<>>
    /\ existing_structs = <<>>
    /\ schema = None
    /\ merge_strategy = "Optional"
    /\ original_source = ""
    /\ replacements = <<>>

\* evolve_with_json(sample, target); shapes keeps all_shapes, the list handed
\* to the optimizer
EvolveWithJson ==
    /\ pc = "start"
    /\ \E all_shapes \in evolve_shape_sets(known, sample, target) :
          IF all_shapes = Panic
          THEN result' = Panic /\ shapes' = shapes
          ELSE /\ shapes' = all_shapes.shapes
               /\ result' \in optimize_shapes(all_shapes.shapes, target, known)
    /\ pc' = "evolved"
    /\ UNCHANGED <<known, sample, target, result2, original_source, replacements, existing_structs, schema, merge_strategy, generated_names>>

NextEvolve == EvolveWithJson

SpecEvolve == InitEvolve /\ [][NextEvolve]_vars

\* C5: evolve_with_json returns for every declarations table, sample and
\* target name; no input makes it panic.
C5_NeverPanics == pc = "evolved" => result # Panic

\* the target names a declared record without optional fields
TargetIsRequiredRecord ==
    /\ target \in DOMAIN known
    /\ known[target].kind = "Struct"
    /\ \A i \in DOMAIN known[target].fields : ~known[target].fields[i].is_optional

DeclaredNamesOfTarget == FieldNames(known[target].fields)

DeclaredType(n) == FindField(known[target].fields, n).field_type

SampleNames == IF sample.t = "Object" THEN {sample.entries[i][1] : i \in DOMAIN sample.entries} ELSE {}

InferredType(n) ==
    infer_json_type(sample.entries[CHOOSE i \in DOMAIN sample.entries : sample.entries[i][1] = n][2])

ResultField(n) == FindField(result.fields, n)

\* a record of exactly the names S, each once
IsRecordOver(r, S) ==
    /\ r.kind = "SimpleStruct"
    /\ r.name = target
    /\ FieldNames(r.fields) = S
    /\ Len(r.fields) = Cardinality(S)

DeclaredTypeWins(declared_type, inferred_type) ==
    \/ declared_type = inferred_type
    \/ declared_type \in {"i16", "i32"} /\ inferred_type = "i64"
    \/ declared_type \in {"u16", "u32"} /\ inferred_type = "u64"

CommonFieldType(n) ==
    IF DeclaredTypeWins(DeclaredType(n), InferredType(n)) THEN DeclaredType(n) ELSE InferredType(n)

MadeOptional(t) ==
    IF Contains(t, "Option<") \/ Contains(t, "Option <") THEN t ELSE "Option<" \o t \o ">"

-----------------------------------------------------------------------------
(* The round trip through the emitted record *)

\* C11: when optimize_shapes yields a record, every field name common to
\* all the input shapes is still common to all the shapes obtained by
\* parsing the emitted record back and expanding it with
\* expand_struct_shapes, which are the shapes the second optimize_shapes
\* extracts its common fields from.
C11_RoundTripKeepsCommonFields ==
    pc = "reoptimized" => common_names(shapes) \subseteq common_names(result2.reexpanded)

-----------------------------------------------------------------------------
(* The degenerate cases of the optimizer *)

\* C12: optimize_shapes on no shape returns a SimpleStruct of the target
\* name without fields, and on one shape a SimpleStruct of the target name
\* with that shape's fields, unchanged and in their order, whatever the
\* table of known types holds.
C12_DegenerateCases ==
    (pc = "optimized" /\ Len(shapes) <= 1) =>
        result = simple_struct(target, IF shapes = <<>> THEN <<>> ELSE shapes[1].fields)

\* one shape {a, x} next to the union U, whose variant A is {a}; and one
\* shape with a non-required field of a spaced Option type
C12_Witness ==
    /\ pc = "optimized"
    /\ Len(shapes) = 1
    /\ \/ /\ "U" \in DOMAIN known
          /\ FieldNames(shapes[1].fields) = {"a", "x"}
       \/ \E f \in Range(shapes[1].fields) :
              ~f.is_required /\ f.field_type = "Option < String >"
    /\ result.kind = "SimpleStruct"
    /\ result.fields = shapes[1].fields

-----------------------------------------------------------------------------
(* The shape set evolve_with_json hands to the optimizer *)

\* the shape list of a call that scores the variants of the union `union`
\* against the sample: the sample shape, the merge with the top-scoring
\* variant and the expansions of the other retained variants
ScoredShapeSet(union) ==
    LET json_shape == analyze_json_shape(sample)
    IN  <<json_shape>> \o evolve_with_enum_variants(json_shape, union.variants, known).shapes

\* C13: when the target names a declared union, the shape list handed to
\* the optimizer is the sample shape followed by the shapes obtained from
\* scoring the union's variants against the sample.
C13_NamedUnionIsScored ==
    (/\ pc = "evolved"
     /\ target \in DOMAIN known
     /\ known[target].kind = "Enum"
     /\ known[target].variants # <<>>) =>
        shapes = ScoredShapeSet(known[target])

\* the struct-vs-candidate-fields score of a declaration against the sample
\* shape: 2 for each sample field whose name the record declares, 3 more
\* when the two types are compatible; a union has no fields to score
FieldsScore(decl) ==
    LET json_fields == analyze_json_shape(sample).fields
        both == {i \in DOMAIN json_fields :
                    decl.kind = "Struct" /\ json_fields[i].name \in FieldNames(decl.fields)}
        compatible == {i \in both :
                          evolution_types_compatible(
                              FindField(decl.fields, json_fields[i].name).field_type,
                              json_fields[i].field_type)}
    IN  2 * Cardinality(both) + 3 * Cardinality(compatible)

Unions == {n \in DOMAIN known : known[n].kind = "Enum"}

\* C14: when the target is not declared, the shape list is the sample shape
\* followed by the expansion of a record whose fields score is positive
\* and not below the score of any other declaration; when no record scores
\* and a union is declared, the union is the one extended; when nothing is
\* declared or only records that score nothing, the shape list is the
\* sample shape alone.
C14_BestMatchIsExtended ==
    (pc = "evolved" /\ target \notin DOMAIN known) =>
        LET json_shape == analyze_json_shape(sample)
        IN  IF \E n \in DOMAIN known : FieldsScore(known[n]) > 0
            THEN \E n \in DOMAIN known :
                    /\ known[n].kind = "Struct"
                    /\ FieldsScore(known[n]) > 0
                    /\ \A m \in DOMAIN known : FieldsScore(known[m]) <= FieldsScore(known[n])
                    /\ shapes = <<json_shape>> \o expand_struct_shapes(known[n].fields, known)
            ELSE IF Unions # {}
            THEN \E u \in Unions :
                    IF known[u].variants = <<>> THEN result = Panic
                    ELSE shapes = ScoredShapeSet(known[u])
            ELSE shapes = <<json_shape>>

\* two records of different positive scores, and the higher one extended
C14_Witness ==
    /\ pc = "evolved"
    /\ target \notin DOMAIN known
    /\ \E n, m \in DOMAIN known :
          /\ FieldsScore(known[m]) > 0
          /\ FieldsScore(known[m]) < FieldsScore(known[n])
          /\ shapes = <<analyze_json_shape(sample)>> \o expand_struct_shapes(known[n].fields, known)
          /\ shapes # <<analyze_json_shape(sample)>> \o expand_struct_shapes(known[m].fields, known)

-----------------------------------------------------------------------------
(* Field names within a shape *)

UniqueFieldNames(shape) == Len(shape.fields) = Cardinality(FieldNames(shape.fields))

\* C15: in every shape expand_type returns for a declared record, no two
\* fields have the same name.
C15_FieldNamesUnique ==
    pc = "expanded" => \A i \in DOMAIN shapes : UniqueFieldNames(shapes[i])

-----------------------------------------------------------------------------
(* The generator under every ComplexEnum *)

\* the variants and common-field lists a ComplexEnum is built from
GenVariantFields ==
    {<<>>,
     <<ShapeField("a", "String", TRUE)>>,
     <<ShapeField("a", "String", TRUE), ShapeField("b", "Option<String>", FALSE)>>,
     <<ShapeField("c", "i64", FALSE)>>}

GenCommonFields ==
    {<<>>,
     <<ShapeField("k", "String", TRUE)>>,
     <<ShapeField("k", "String", TRUE), ShapeField("m", "bool", FALSE)>>}

GenVariantLists ==
    UNION {{[i \in 1..n |-> ShapeVariant("Variant" \o ToString(i), fs[i])] :
               fs \in [1..n -> GenVariantFields]} : n \in 0..MaxShapes}

InitGen ==
    /\ known = NoTypes
    /\ shapes = <<>>
    /\ sample = None
    /\ target = "T"
    /\ pc = "constructed"
    /\ result \in {complex_enum(target, cf, vs) : cf \in GenCommonFields, vs \in GenVariantLists}
    /\ result2 = None
    /\ generated_names = <<>>
    /\ existing_structs = <<>>
    /\ schema = None
    /\ merge_strategy = "Optional"
    /\ original_source = ""
    /\ replacements = <<>>

\* result.generate_rust_code() on a ComplexEnum built by
\* EvolutionResult::complex_enum
GenerateComplexEnumCode ==
    /\ pc = "constructed"
    /\ result2' = generate_rust_code(result)
    /\ pc' = "emitted"
    /\ UNCHANGED <<known, shapes, sample, target, result, original_source, replacements, existing_structs, schema, merge_strategy, generated_names>>

NextGen == GenerateComplexEnumCode

SpecGen == InitGen /\ [][NextGen]_vars

\* the declaration of the given name in a generated text
DeclarationNamed(code, n) == code[CHOOSE i \in DOMAIN code : code[i].name = n]

\* the field lines a union variant carries, the flattened base record
\* resolved to the field lines of that record
CarriedFields(code, variant) ==
    IF variant.fields # <<>> /\ variant.fields[1][1] = "base"
    THEN DeclarationNamed(code, variant.fields[1][2]).fields \o Tail(variant.fields)
    ELSE variant.fields

\* the written form of a field: its name and its type, Option-wrapped when
\* the field is not required and its type is not an Option already
Written(fields) ==
    [i \in DOMAIN fields |->
        <<fields[i].name,
          IF fields[i].is_required \/ StartsWith(fields[i].field_type, "Option<")
                                   \/ StartsWith(fields[i].field_type, "Option <")
          THEN fields[i].field_type
          ELSE "Option<" \o fields[i].field_type \o ">">>]

\* C16: a ComplexEnum with exactly two variants, one without fields and one
\* with fields, and with common fields, is generated as the record
\* <Name>Extra of the non-empty variant's fields followed by the record
\* <Name> of the common fields plus one field typed Option<<Name>Extra>.
\* Every other ComplexEnum is generated as a union <Name> with one variant
\* per input variant, in order, each carrying the common fields and then its
\* own fields.
C16_RecordExactlyForOptionalExtra ==
    (pc = "emitted" /\ result.kind = "ComplexEnum") =>
        LET vs == result.variants
            cf == result.common_fields
            empty == {i \in DOMAIN vs : vs[i].fields = <<>>}
        IN  IF Len(vs) = 2 /\ Cardinality(empty) = 1 /\ cf # <<>>
            THEN LET other == CHOOSE i \in DOMAIN vs : i \notin empty
                 IN  result2 =
                         <<[item |-> "struct", name |-> result.name \o "Extra",
                            fields |-> Written(vs[other].fields)],
                           [item |-> "struct", name |-> result.name,
                            fields |-> Written(cf)
                                \o <<<<"extra", "Option<" \o result.name \o "Extra>">>>>]>>
            ELSE LET union == result2[Len(result2)]
                 IN  /\ union.item = "enum"
                     /\ union.name = result.name
                     /\ \A d \in 1..(Len(result2) - 1) : result2[d].name # result.name
                     /\ Len(union.variants) = Len(vs)
                     /\ \A i \in DOMAIN vs :
                           /\ union.variants[i].name = vs[i].name
                           /\ CarriedFields(result2, union.variants[i])
                                 = Written(cf) \o Written(vs[i].fields)

\* both outcomes happen: the record with the optional extra, and a union
\* of two variants one of which is empty but without common fields
C16_Witness ==
    /\ pc = "emitted"
    /\ Len(result.variants) = 2
    /\ \E i \in DOMAIN result.variants : result.variants[i].fields = <<>>
    /\ \E i \in DOMAIN result.variants : result.variants[i].fields # <<>>
    /\ \/ result.common_fields # <<>> /\ result2[Len(result2)].item = "struct"
       \/ result.common_fields = <<>> /\ result2[Len(result2)].item = "enum"

-----------------------------------------------------------------------------
(* parser.rs: the span of a declaration.  Offsets are byte offsets from 0, *)
(* as in the source; the texts are ASCII.                                  *)

\* &s[a..b]
Slice(s, a, b) == SubSeq(s, a + 1, b)

\* str::find: the offset of the first match, or None
Find(s, p) ==
    LET at == {i \in 0..(Len(s) - Len(p)) : Slice(s, i, i + Len(p)) = p}
    IN  IF at = {} THEN None ELSE Some(CHOOSE i \in at : \A j \in at : i <= j)

\* str::rfind: the offset of the last match, or None
RFind(s, p) ==
    LET at == {i \in 0..(Len(s) - Len(p)) : Slice(s, i, i + Len(p)) = p}
    IN  IF at = {} THEN None ELSE Some(CHOOSE i \in at : \A j \in at : i >= j)

\* str::lines: the pieces between line feeds, without a last empty piece
RECURSIVE Lines(_)
Lines(s) ==
    IF s = "" THEN <<>>
    ELSE LET nl == Find(s, "\n")
         IN  IF nl = None THEN <<s>>
             ELSE <<Slice(s, 0, nl[1])>> \o Lines(Slice(s, nl[1] + 1, Len(s)))

\* the lines a definition takes with it: attributes, doc comments, blanks
is_leading_line(line) ==
    LET trimmed == Trim(line)
    IN  \/ StartsWith(trimmed, "#[")
        \/ StartsWith(trimmed, "///")
        \/ StartsWith(trimmed, "//!")
        \/ StartsWith(trimmed, "/**")
        \/ trimmed = ""

\* the loop `while let Some(line) = lines.pop()` of find_definition_start
\* and of find_full_definition_span: the position moves to before.rfind(line)
\* for each leading line, from the last line backwards
RECURSIVE leading_lines_start(_, _, _)
leading_lines_start(before, lines, current_pos) ==
    IF lines = <<>> THEN current_pos
    ELSE LET line == lines[Len(lines)]
         IN  IF is_leading_line(line)
             THEN leading_lines_start(before, SubSeq(lines, 1, Len(lines) - 1),
                                      IF RFind(before, line) # None
                                      THEN RFind(before, line)[1] ELSE current_pos)
             ELSE current_pos

find_definition_start(source, keyword_pos) ==
    LET before == Slice(source, 0, keyword_pos)
    IN  leading_lines_start(before, Lines(before), keyword_pos)

\* the loop over source[start_pos..].char_indices() from offset pos on
RECURSIVE definition_end_from(_, _, _, _, _)
definition_end_from(source, start_pos, pos, brace_count, found_opening) ==
    IF pos >= Len(source) THEN start_pos
    ELSE LET ch == Slice(source, pos, pos + 1)
         IN  IF ch = "{"
             THEN definition_end_from(source, start_pos, pos + 1, brace_count + 1, TRUE)
             ELSE IF ch = "}"
             THEN IF found_opening /\ brace_count - 1 = 0
                  THEN IF pos + 1 < Len(source) /\ Slice(source, pos + 1, pos + 2) = "\n"
                       THEN pos + 2 ELSE pos + 1
                  ELSE definition_end_from(source, start_pos, pos + 1, brace_count - 1,
                                           found_opening)
             ELSE definition_end_from(source, start_pos, pos + 1, brace_count, found_opening)

find_definition_end(source, start_pos) ==
    definition_end_from(source, start_pos, start_pos, 0, FALSE)

\* Some(<<start, end>>) for the first of the three patterns the text holds
find_type_span(source, type_name, is_struct) ==
    LET keyword == IF is_struct THEN "struct" ELSE "enum"
        patterns == <<"pub " \o keyword \o " " \o type_name,
                      keyword \o " " \o type_name,
                      "pub(crate) " \o keyword \o " " \o type_name>>
        found == {i \in DOMAIN patterns : Find(source, patterns[i]) # None}
    IN  IF found = {} THEN None
        ELSE LET first == CHOOSE i \in found : \A j \in found : i <= j
                 start_pos == Find(source, patterns[first])[1]
             IN  Some(<<find_definition_start(source, start_pos),
                        find_definition_end(source, start_pos)>>)

-----------------------------------------------------------------------------
(* surgery.rs: replacing declarations in the text *)

TypeReplacement(span, new_code) == [span |-> span, new_code |-> new_code]

\* the backward loop of find_full_definition_span (lines 96-113)
full_definition_start(source, start) ==
    LET before_start == Slice(source, 0, start)
    IN  leading_lines_start(before_start, Lines(before_start), start)

\* the forward loop (lines 116-124) at the i-th character after `end`
RECURSIVE full_definition_end_from(_, _, _)
full_definition_end_from(source, end, i) ==
    IF end + i >= Len(source) THEN end
    ELSE LET ch == Slice(source, end + i, end + i + 1)
         IN  IF ch = "\n" THEN end + i + 1
             ELSE IF ch = " " THEN full_definition_end_from(source, end, i + 1)
             ELSE end

find_full_definition_span(source, start, end) ==
    <<full_definition_start(source, start), full_definition_end_from(source, end, 0)>>

\* sort_by_key(|(start, _, _)| *start): stable
RECURSIVE insert_by_start(_, _)
insert_by_start(sorted, x) ==
    IF sorted = <<>> THEN <<x>>
    ELSE IF x.span[1][1] < Head(sorted).span[1][1] THEN <<x>> \o sorted
         ELSE <<Head(sorted)>> \o insert_by_start(Tail(sorted), x)

RECURSIVE sort_by_start_acc(_, _)
sort_by_start_acc(s, sorted) ==
    IF s = <<>> THEN sorted ELSE sort_by_start_acc(Tail(s), insert_by_start(sorted, Head(s)))

\* lines 66-85: the loop that builds the result; the slice
\* original_source[last_pos..actual_start] is out of range, a panic, when
\* last_pos is beyond actual_start
RECURSIVE build_result(_, _, _, _)
build_result(source, span_replacements, last_pos, text) ==
    IF span_replacements = <<>>
    THEN [kind |-> "Ok", text |-> text \o Slice(source, last_pos, Len(source))]
    ELSE LET r == Head(span_replacements)
             actual == find_full_definition_span(source, r.span[1][1], r.span[1][2])
         IN  IF last_pos > actual[1] THEN Panic
             ELSE build_result(source, Tail(span_replacements), actual[2],
                               text \o Slice(source, last_pos, actual[1]) \o r.new_code)

replace_multiple_type_definitions(source, rs) ==
    LET span_replacements ==
            sort_by_start_acc(SelectSeq(rs, LAMBDA r : r.span # None), <<>>)
    IN  IF rs = <<>> THEN [kind |-> "Ok", text |-> source]
        ELSE IF \E i \in 2..Len(span_replacements) :
                    span_replacements[i - 1].span[1][2] > span_replacements[i].span[1][1]
             THEN [kind |-> "Err"]
             ELSE build_result(source, span_replacements, 0, "")

-----------------------------------------------------------------------------
(* The surgeon under every text *)

\* the most lines of a text
MaxLines == 4

TypeNames == {"A", "B", "AB"}

Declaration(n) == "struct " \o n \o " {}"

\* a declaration, an empty line, a line of blanks, an attribute
LinePieces == {Declaration(n) : n \in TypeNames} \cup {"", "  ", "#[x]"}

RECURSIVE JoinLines(_)
JoinLines(ls) == IF ls = <<>> THEN "" ELSE Head(ls) \o "\n" \o JoinLines(Tail(ls))

\* texts that declare each type at most once and at least one type
SourceTexts ==
    {JoinLines(ls) : ls \in
        {l \in UNION {[1..k -> LinePieces] : k \in 1..MaxLines} :
            /\ \E i \in DOMAIN l, n \in TypeNames : l[i] = Declaration(n)
            /\ \A i, j \in DOMAIN l, n \in TypeNames :
                  (l[i] = Declaration(n) /\ l[j] = Declaration(n)) => i = j}}

\* the types parse_types finds in a text
DeclaredIn(source) == {n \in TypeNames : Declaration(n) \in Range(Lines(source))}

NewCode(n) == "struct " \o n \o " { v: u8 }\n"

\* a replacement for each type of any choice of the declared types, in any
\* order, with the span parse_types recorded for it
ReplacementLists(source) ==
    UNION {{[i \in DOMAIN p |->
                TypeReplacement(find_type_span(source, p[i], TRUE), NewCode(p[i]))] :
               p \in Orderings(S)} : S \in SUBSET DeclaredIn(source)}

InitSurgery ==
    /\ original_source \in SourceTexts
    /\ replacements \in ReplacementLists(original_source)
    /\ known = NoTypes
    /\ shapes = <<>>
    /\ sample = None
    /\ target = "T"
    /\ pc = "start"
    /\ result = None
    /\ result2 = None
    /\ generated_names = <<>>
    /\ existing_structs = <<>>
    /\ schema = None
    /\ merge_strategy = "Optional"

\* CodeSurgeon::new(original_source).replace_multiple_type_definitions(replacements)
ReplaceMultipleTypeDefinitions ==
    /\ pc = "start"
    /\ result' = replace_multiple_type_definitions(original_source, replacements)
    /\ pc' = "replaced"
    /\ UNCHANGED <<known, shapes, sample, target, result2, original_source, replacements, existing_structs, schema, merge_strategy, generated_names>>

NextSurgery == ReplaceMultipleTypeDefinitions

SpecSurgery == InitSurgery /\ [][NextSurgery]_vars

\* the ranges the call would replace, in the order of their starts: the
\* spans widened by find_full_definition_span, each with its new code
WidenedRanges ==
    LET sorted == sort_by_start_acc(replacements, <<>>)
    IN  [i \in DOMAIN sorted |->
            [range |-> find_full_definition_span(original_source, sorted[i].span[1][1],
                                                 sorted[i].span[1][2]),
             new_code |-> sorted[i].new_code]]

RangesOverlap(ranges) ==
    \E i, j \in DOMAIN ranges :
        i # j /\ ranges[i].range[1] < ranges[j].range[2]
              /\ ranges[j].range[1] < ranges[i].range[2]

\* the text with each of the disjoint, ordered ranges replaced by its code
RECURSIVE Spliced(_, _, _)
Spliced(source, ranges, from) ==
    IF ranges = <<>> THEN Slice(source, from, Len(source))
    ELSE Slice(source, from, Head(ranges).range[1]) \o Head(ranges).new_code
             \o Spliced(source, Tail(ranges), Head(ranges).range[2])

\* C17: replace_multiple_type_definitions returns an error when two of the
\* widened ranges overlap; otherwise it returns the text in which each
\* widened range is replaced by its new code and everything else is kept
\* once and in order; with no replacement it returns the text unchanged.
C17_NoOverlappingSubstitution ==
    pc = "replaced" =>
        IF replacements = <<>> THEN result = [kind |-> "Ok", text |-> original_source]
        ELSE IF RangesOverlap(WidenedRanges) THEN result = [kind |-> "Err"]
        ELSE result = [kind |-> "Ok", text |-> Spliced(original_source, WidenedRanges, 0)]

-----------------------------------------------------------------------------
(* json2rust-lib: analyzer.rs, parser.rs, codegen.rs -- merging a JSON     *)
(* schema into an existing struct                                          *)

RustField(n, t, o, rename) == [name |-> n, type_name |-> t, is_optional |-> o, serde_rename |-> rename]

RustStruct(n, fs, o) == [name |-> n, fields |-> fs, is_optional |-> o]

RustEnumVariant(n, fs) == [name |-> n, fields |-> fs]

RustEnum(n, vs) == [name |-> n, variants |-> vs]

\* ExistingStruct: fields is the HashMap field name -> type text
ExistingStruct(n, fs) == [name |-> n, fields |-> fs]

\* JsonSchema with JsonType::Object(fields): fields is the HashMap
\* key -> JsonType, a JsonType of a key being "String", "Number", "Boolean"
\* or "Null"
JsonSchema(n, fs) == [name |-> n, fields |-> fs, optional |-> FALSE]

\* the characters char::is_uppercase and char::is_lowercase hold of, among
\* the characters of field names
UppercaseChars == {SubSeq(UpperChars, k, k) : k \in 1..Len(UpperChars)}

LowercaseChars == {SubSeq(LowerChars, k, k) : k \in 1..Len(LowerChars)}

\* analyzer.rs: to_snake_case, from the character at offset i on
RECURSIVE to_snake_case_from(_, _, _)
to_snake_case_from(s, i, prev_lowercase) ==
    IF i >= Len(s) THEN ""
    ELSE LET ch == SubSeq(s, i + 1, i + 1)
         IN  IF ch \in UppercaseChars
             THEN (IF i > 0 /\ prev_lowercase THEN "_" ELSE "")
                      \o LowerChar(ch) \o to_snake_case_from(s, i + 1, FALSE)
             ELSE ch \o to_snake_case_from(s, i + 1,
                                           ch \in LowercaseChars)

to_snake_case(s) == to_snake_case_from(s, 0, FALSE)

is_numeric_type(type_name) ==
    type_name \in {"i8", "i16", "i32", "i64", "i128", "isize",
                   "u8", "u16", "u32", "u64", "u128", "usize", "f32", "f64"}

extract_option_inner(option_type) ==
    IF StartsWith(option_type, "Option<") /\ EndsWith(option_type, ">")
    THEN SubSeq(option_type, 8, Len(option_type) - 1)
    ELSE option_type

\* parser.rs (json2rust-lib): are_types_compatible
RECURSIVE are_types_compatible(_, _)
are_types_compatible(existing_type, new_type) ==
    LET existing_optional == StartsWith(existing_type, "Option<")
        new_optional == StartsWith(new_type, "Option<")
    IN  IF existing_type = new_type THEN TRUE
        ELSE IF existing_optional /\ ~new_optional
        THEN are_types_compatible(extract_option_inner(existing_type), new_type)
        ELSE IF ~existing_optional /\ new_optional
        THEN are_types_compatible(existing_type, extract_option_inner(new_type))
        ELSE IF is_numeric_type(existing_type) /\ new_type = "f64" THEN TRUE
        ELSE IF is_numeric_type(new_type) /\ existing_type = "f64" THEN TRUE
        ELSE <<existing_type, new_type>> \in
                 {<<"String", "i64">>, <<"i64", "String">>, <<"String", "f64">>,
                  <<"f64", "String">>, <<"i64", "f64">>, <<"f64", "i64">>}

\* calculate_struct_similarity(existing, new_field_map) >= SIMILARITY_THRESHOLD.
\* similarity = (common/total + compatible/common) / 2 in f64, compared
\* with 0.6; in integers 5 * (common^2 + compatible * total) >=
\* 6 * total * common.  The two agree for the field counts of this model
\* (the only case of equality, total = 5 * common with every common field
\* compatible, gives exactly the double 0.6).
is_similar(existing, new_fields) ==
    LET new_field_map == [n \in FieldNames(new_fields) |->
                             new_fields[CHOOSE i \in DOMAIN new_fields :
                                 /\ new_fields[i].name = n
                                 /\ \A j \in DOMAIN new_fields :
                                       new_fields[j].name = n => j <= i].type_name]
        total_fields == Cardinality(DOMAIN existing.fields) + Cardinality(DOMAIN new_field_map)
        common == DOMAIN new_field_map \cap DOMAIN existing.fields
        common_fields == Cardinality(common)
        compatible_fields ==
            Cardinality({n \in common : are_types_compatible(existing.fields[n], new_field_map[n])})
    IN  IF DOMAIN existing.fields = {} /\ DOMAIN new_field_map = {} THEN TRUE
        ELSE IF common_fields = 0 THEN FALSE
        ELSE 5 * (common_fields * common_fields + compatible_fields * total_fields)
                 >= 6 * total_fields * common_fields

\* the first existing struct that is similar enough, or None
find_compatible_struct(new_fields, structs) ==
    LET similar == {i \in DOMAIN structs : is_similar(structs[i], new_fields)}
    IN  IF similar = {} THEN None
        ELSE Some(structs[CHOOSE i \in similar : \A j \in similar : i <= j])

get_compatible_type(existing_type, new_type) ==
    IF existing_type = new_type THEN existing_type
    ELSE IF is_numeric_type(existing_type) /\ new_type = "f64" THEN existing_type
    ELSE IF /\ StartsWith(existing_type, "Option<")
            /\ ~StartsWith(new_type, "Option<")
            /\ \/ extract_option_inner(existing_type) = new_type
               \/ is_numeric_type(extract_option_inner(existing_type)) /\ new_type = "f64"
         THEN existing_type
    ELSE IF /\ ~StartsWith(existing_type, "Option<")
            /\ StartsWith(new_type, "Option<")
            /\ \/ existing_type = extract_option_inner(new_type)
               \/ is_numeric_type(existing_type) /\ extract_option_inner(new_type) = "f64"
         THEN new_type
    ELSE new_type

UpperChar(c) ==
    IF c \in LowercaseChars
    THEN LET i == CHOOSE k \in 1..Len(LowerChars) : SubSeq(LowerChars, k, k) = c
         IN  SubSeq(UpperChars, i, i)
    ELSE c

\* analyzer.rs: to_pascal_case, from the character at offset i on; word_start
\* says that the character opens a piece of the split on '_', '-' and ' '
RECURSIVE to_pascal_case_from(_, _, _)
to_pascal_case_from(s, i, word_start) ==
    IF i >= Len(s) THEN ""
    ELSE LET ch == SubSeq(s, i + 1, i + 1)
         IN  IF ch \in {"_", "-", " "} THEN to_pascal_case_from(s, i + 1, TRUE)
             ELSE (IF word_start THEN UpperChar(ch) ELSE LowerChar(ch))
                      \o to_pascal_case_from(s, i + 1, FALSE)

to_pascal_case(s) == to_pascal_case_from(s, 0, TRUE)

\* generate_struct_from_schema on a schema that is not an object or an array
primitive_type_name(json_type) ==
    CASE json_type = "String" -> "String"
      [] json_type = "Number" -> "f64"
      [] json_type = "Boolean" -> "bool"
      [] json_type = "Null" -> "Option<serde_json::Value>"

\* one RustField per key, in each order the HashMap can be iterated in
generate_fields_from_object(fields) ==
    LET rust_field(field_name) ==
            LET snake == to_snake_case(field_name)
            IN  RustField(snake,
                          primitive_type_name(fields[field_name]),
                          fields[field_name] = "Null",
                          IF snake # field_name THEN Some(field_name) ELSE None)
        rust_fields == {<<k, rust_field(k)>> : k \in DOMAIN fields}
        field_of(k) == (CHOOSE p \in rust_fields : p[1] = k)[2]
    IN  {[i \in DOMAIN order |-> field_of(order[i])] : order \in Orderings(DOMAIN fields)}

\* the entry of new_field_map for a name: the last field of that name
new_field_named(new_fields, n) ==
    new_fields[CHOOSE i \in DOMAIN new_fields :
                  /\ new_fields[i].name = n
                  /\ \A j \in DOMAIN new_fields : new_fields[j].name = n => j <= i]

\* The classifications the loop over existing.fields (a HashMap) can build:
\* common_fields and old_only_fields are filled in iteration order, so each
\* can come out in any order of its names; new_only_fields follows new_fields.
classify_fields_for_extension_with_enums(existing, new_fields, existing_enums) ==
    LET enum_variant_fields ==
            UNION {UNION {FieldNames(en.variants[v].fields) : v \in DOMAIN en.variants}
                       : en \in Range(existing_enums)}
        names == DOMAIN existing.fields \ {"schema_variant"}
        common == {n \in names : n \in FieldNames(new_fields)}
        common_field(n) ==
            RustField(n,
                      get_compatible_type(existing.fields[n], new_field_named(new_fields, n).type_name),
                      new_field_named(new_fields, n).is_optional
                          \/ StartsWith(existing.fields[n], "Option<"),
                      new_field_named(new_fields, n).serde_rename)
        old_only_field(n) ==
            RustField(n, existing.fields[n], StartsWith(existing.fields[n], "Option<"), None)
    IN  {[common_fields |-> [i \in DOMAIN co |-> common_field(co[i])],
          old_only_fields |-> [i \in DOMAIN oo |-> old_only_field(oo[i])],
          new_only_fields |->
              SelectSeq(new_fields,
                        LAMBDA f : /\ f.name # "schema_variant"
                                   /\ f.name \notin DOMAIN existing.fields
                                   /\ f.name \notin enum_variant_fields)]
            : co \in Orderings(common), oo \in Orderings(names \ common)}

classify_fields_for_extension(existing, new_fields) ==
    classify_fields_for_extension_with_enums(existing, new_fields, <<>>)

\* the wrapping applied to a conflicting field: Option<...> unless the type
\* already starts with "Option<"
make_optional(field) ==
    IF ~StartsWith(field.type_name, "Option<")
    THEN [field EXCEPT !.type_name = "Option<" \o @ \o ">", !.is_optional = TRUE]
    ELSE field

make_all_optional(fields) == [i \in DOMAIN fields |-> make_optional(fields[i])]

extend_with_optional_fields(existing, classification) ==
    RustStruct(existing.name,
               classification.common_fields
                   \o make_all_optional(classification.old_only_fields)
                   \o make_all_optional(classification.new_only_fields),
               FALSE)

\* the first field with the shortest name, in PascalCase, plus "Variant"
generate_variant_name(fields) ==
    LET distinctive_field ==
            IF fields = <<>> THEN "Variant"
            ELSE fields[CHOOSE i \in DOMAIN fields :
                     \A j \in DOMAIN fields :
                         \/ Len(fields[i].name) < Len(fields[j].name)
                         \/ Len(fields[i].name) = Len(fields[j].name) /\ i <= j].name
    IN  to_pascal_case(distinctive_field) \o "Variant"

\* returns the schema_variant field and the enums collection after the call
create_schema_variant_enum(struct_name, old_fields, new_fields, enums) ==
    LET enum_name == struct_name \o "Variant"
        field == RustField("schema_variant", enum_name, FALSE, None)
        new_variant ==
            IF new_fields # <<>>
            THEN <<RustEnumVariant(generate_variant_name(new_fields), make_all_optional(new_fields))>>
            ELSE <<>>
        old_variant ==
            IF old_fields # <<>>
            THEN <<RustEnumVariant(generate_variant_name(old_fields), make_all_optional(old_fields))>>
            ELSE <<>>
    IN  IF \E e \in Range(enums) : e.name = enum_name
        THEN [field |-> field, enums |-> enums]
        ELSE [field |-> field,
              enums |-> Append(enums, RustEnum(enum_name, new_variant \o old_variant))]

\* returns the struct and the enums collection after the call
extend_with_hybrid_fields(existing, classification, enums) ==
    LET total_conflicting ==
            Len(classification.old_only_fields) + Len(classification.new_only_fields)
        created == create_schema_variant_enum(existing.name, classification.old_only_fields,
                                              classification.new_only_fields, enums)
    IN  IF total_conflicting > 3
        THEN [struct |-> RustStruct(existing.name,
                                    Append(classification.common_fields, created.field), FALSE),
              enums |-> created.enums]
        ELSE [struct |-> RustStruct(existing.name,
                                    classification.common_fields
                                        \o make_all_optional(classification.old_only_fields)
                                        \o make_all_optional(classification.new_only_fields),
                                    FALSE),
              enums |-> enums]

\* MergeStrategy::Optional and MergeStrategy::Hybrid; one outcome per order
\* in which existing.fields can be iterated
extend_existing_struct(existing, new_fields, enums, strategy) ==
    {IF strategy = "Optional"
     THEN [struct |-> extend_with_optional_fields(existing, classification), enums |-> enums]
     ELSE extend_with_hybrid_fields(existing, classification, enums)
        : classification \in classify_fields_for_extension(existing, new_fields)}

\* generate_struct_from_schema on an object schema whose fields are
\* primitives, with empty structs, enums and generated_names (so that
\* ensure_unique_name returns schema.name): the GeneratedTypes the call of
\* generate_rust_types_with_strategy can return
generate_rust_types_with_strategy(sch, structs, strategy) ==
    UNION {LET existing == find_compatible_struct(rust_fields, structs)
           IN  IF existing # None
               THEN {[structs |-> <<ext.struct>>, enums |-> ext.enums]
                        : ext \in extend_existing_struct(existing[1], rust_fields, <<>>, strategy)}
               ELSE {[structs |-> <<RustStruct(sch.name, rust_fields, sch.optional)>>,
                      enums |-> <<>>]}
              : rust_fields \in generate_fields_from_object(sch.fields)}

-----------------------------------------------------------------------------
(* Inputs of the schema merge *)

MaxJsonFields == 4

\* one choice per field: absent ("") or one of the listed types
ExistingFieldChoices ==
    [name |-> {"String", "Option<String>"},
     age |-> {"", "i32"},
     bio |-> {"", "Option<String>"},
     score |-> {"", "f32"},
     schema_variant |-> {"", "String", "UserVariant"}]

JsonFieldChoices ==
    [name |-> {"", "String"},
     age |-> {"", "Number", "String"},
     score |-> {"", "Number"},
     email |-> {"", "String"},
     isActive |-> {"", "Boolean"},
     schema_variant |-> {"", "String"}]

\* the maps that give every key of choices one of its listed values
ChoiceMaps(choices) ==
    {[k \in {n \in DOMAIN c : c[n] # ""} |-> c[k]]
        : c \in {f \in [DOMAIN choices -> UNION Range(choices)] :
                     \A k \in DOMAIN choices : f[k] \in choices[k]}}

ExistingStructs == {ExistingStruct("User", fs) : fs \in ChoiceMaps(ExistingFieldChoices)}

JsonSchemas ==
    {JsonSchema("User", fs) :
        fs \in {m \in ChoiceMaps(JsonFieldChoices) : Cardinality(DOMAIN m) <= MaxJsonFields}}

InitMerge ==
    /\ existing_structs \in {<<>>} \cup {<<e>> : e \in ExistingStructs}
    /\ schema \in JsonSchemas
    /\ merge_strategy \in {"Optional", "Hybrid"}
    /\ known = NoTypes
    /\ shapes = <<>>
    /\ sample = None
    /\ target = "User"
    /\ pc = "constructed"
    /\ result = None
    /\ result2 = None
    /\ generated_names = <<>>
    /\ original_source = ""
    /\ replacements = <<>>

GenerateRustTypesWithStrategy ==
    /\ pc = "constructed"
    /\ result' \in generate_rust_types_with_strategy(schema, existing_structs, merge_strategy)
    /\ pc' = "merged"
    /\ UNCHANGED <<known, shapes, sample, target, result2, original_source, replacements, existing_structs, schema, merge_strategy, generated_names>>

NextMerge == GenerateRustTypesWithStrategy

SpecMerge == InitMerge /\ [][NextMerge]_vars

-----------------------------------------------------------------------------
(* Vocabulary of the schema-merge claims *)

\* the existing struct the JSON fields are merged into, if there is one
CompatibleExisting ==
    IF schema = None THEN None
    ELSE LET rust_fields == CHOOSE fs \in generate_fields_from_object(schema.fields) : TRUE
         IN  find_compatible_struct(rust_fields, existing_structs)

\* the Rust field name and the inferred type of every key of the JSON object
JsonFieldTypes ==
    [n \in {to_snake_case(k) : k \in DOMAIN schema.fields} |->
        primitive_type_name(schema.fields[CHOOSE k \in DOMAIN schema.fields : to_snake_case(k) = n])]

\* the fields of the struct the call returned
MergedFields == Range(result.structs[1].fields)

\* the merged struct has a field of this name and this type
MergedHas(n, type_name) == \E f \in MergedFields : f.name = n /\ f.type_name = type_name

\* the call returned the extension of an existing struct
Merged(strategy) == pc = "merged" /\ merge_strategy = strategy /\ CompatibleExisting # None

-----------------------------------------------------------------------------
(* C18 *)

\* the declared type is one the claim says is kept for this inferred type
DeclaredTypeIsKept(declared_type, inferred) ==
    \/ declared_type = inferred
    \/ is_numeric_type(declared_type) /\ inferred = "f64"
    \/ declared_type = "Option<" \o inferred \o ">"

\* C18: when generate_rust_structs merges the JSON object into a compatible
\* existing struct, every field that is in the existing struct and in the
\* JSON comes out with the existing struct's declared type whenever that
\* type equals the inferred type, is a numeric type while the JSON infers
\* f64, or is Option<T> while the JSON infers T.
C18_CommonFieldKeepsDeclaredType ==
    Merged("Optional") =>
        \A n \in DOMAIN CompatibleExisting[1].fields \cap DOMAIN JsonFieldTypes :
            DeclaredTypeIsKept(CompatibleExisting[1].fields[n], JsonFieldTypes[n])
                => MergedHas(n, CompatibleExisting[1].fields[n])

-----------------------------------------------------------------------------
(* C19 *)

\* the names of the fields of the compatible existing struct
ExistingNames == DOMAIN CompatibleExisting[1].fields

\* C19: when generate_rust_structs (the optional strategy) merges the JSON
\* object into a compatible existing struct, every field that occurs only
\* in the JSON is in the merged struct with its plain inferred type, and
\* the names of the merged struct's fields are exactly those of the
\* existing struct together with those of the JSON.
C19_NewFieldPlainAndUnion ==
    Merged("Optional") =>
        /\ \A n \in DOMAIN JsonFieldTypes \ ExistingNames : MergedHas(n, JsonFieldTypes[n])
        /\ {f.name : f \in MergedFields} = ExistingNames \cup DOMAIN JsonFieldTypes

-----------------------------------------------------------------------------
(* C20 *)

\* the fields that are in only one of the existing struct and the JSON
ConflictingNames ==
    (ExistingNames \ DOMAIN JsonFieldTypes) \cup (DOMAIN JsonFieldTypes \ ExistingNames)

\* the call synthesized a union: a field schema_variant typed
\* <StructName>Variant and the enum of that name
UnionSynthesized ==
    /\ MergedHas("schema_variant", CompatibleExisting[1].name \o "Variant")
    /\ \E e \in Range(result.enums) : e.name = CompatibleExisting[1].name \o "Variant"

\* C20: under the hybrid strategy a union is synthesized only when more
\* than 3 fields conflict; with 3 or fewer no union is created and every
\* conflicting field is in the merged struct as an optional field; in both
\* cases every field common to the two schemas is in the merged struct.
C20_HybridUnionOnlyAboveThree ==
    Merged("Hybrid") =>
        /\ UnionSynthesized => Cardinality(ConflictingNames) > 3
        /\ Cardinality(ConflictingNames) <= 3 =>
              /\ result.enums = <<>>
              /\ \A n \in ConflictingNames :
                    \E f \in MergedFields :
                        f.name = n /\ f.is_optional /\ StartsWith(f.type_name, "Option<")
        /\ \A n \in ExistingNames \cap DOMAIN JsonFieldTypes :
              n \in {f.name : f \in MergedFields}

-----------------------------------------------------------------------------
(* find_common_fields on shapes that hold one field under differing types *)

MaxNumericShapes == 3

NumericTypes == {"i16", "i32", "i64", "u16", "u32", "u64", "f64"}

\* shapes with the one field n, of a numeric type, required or not
NumericShapes ==
    {Shape(<<ShapeField("n", t, r)>>, ShapeMetadata_new) : t \in NumericTypes, r \in BOOLEAN}

NumericShapeLists == UNION {[1..k -> NumericShapes] : k \in 1..MaxNumericShapes}

InitCommon ==
    /\ shapes \in NumericShapeLists
    /\ known = NoTypes
    /\ sample = None
    /\ target = "T"
    /\ pc = "start"
    /\ result = None
    /\ result2 = None
    /\ generated_names = <<>>
    /\ existing_structs = <<>>
    /\ schema = None
    /\ merge_strategy = "Optional"
    /\ original_source = ""
    /\ replacements = <<>>

\* find_common_fields(shapes)
FindCommonFields ==
    /\ pc = "start"
    /\ result' \in find_common_fields(shapes)
    /\ pc' = "common"
    /\ UNCHANGED <<known, shapes, sample, target, result2, original_source, replacements, existing_structs, schema, merge_strategy, generated_names>>

NextCommon == FindCommonFields

SpecCommon == InitCommon /\ [][NextCommon]_vars

-----------------------------------------------------------------------------
(* C21 *)

IntegerTypes == {"i16", "i32", "i64", "u16", "u32", "u64"}

\* the first type is the more specific of the two by the rules on types:
\* a narrower integer type of the same signedness, or an integer type
\* against f64
MoreSpecificType(t1, t2) ==
    \/ <<t1, t2>> \in {<<"i16", "i32">>, <<"i16", "i64">>, <<"i32", "i64">>,
                       <<"u16", "u32">>, <<"u16", "u64">>, <<"u32", "u64">>}
    \/ t1 \in IntegerTypes /\ t2 = "f64"

\* field f beats field g: by its type, or, when the types decide nothing,
\* by being required where g is optional
Beats(f, g) ==
    \/ MoreSpecificType(f.field_type, g.field_type)
    \/ /\ ~MoreSpecificType(g.field_type, f.field_type)
       /\ f.is_required /\ ~g.is_required

\* the fields the shapes hold under the common name
FieldsOfShapes == {shapes[i].fields[1] : i \in DOMAIN shapes}

\* C21: for a name common to all shapes whose types differ between shapes,
\* find_common_fields keeps a field that no field of another shape beats
\* (narrower integer over wider of the same signedness, integer over f64,
\* required over optional), whatever the order of the shapes; when no field
\* beats another the field of the first shape is kept.
C21_MoreSpecificTypeKept ==
    (pc = "common" /\ Cardinality({f.field_type : f \in FieldsOfShapes}) > 1) =>
        /\ Len(result) = 1
        /\ \A g \in FieldsOfShapes : ~Beats(g, result[1])
        /\ (\A f, g \in FieldsOfShapes : ~Beats(f, g)) => result[1] = shapes[1].fields[1]

-----------------------------------------------------------------------------
(* The shape expander on a union *)

MaxVariants == 2

VariantNames == <<"Login", "Ping">>

\* what a variant can declare: nothing (a unit variant) or up to two fields
VariantFieldLists ==
    {None} \cup {Some(fs) : fs \in UNION {Product([i \in 1..k |-> DeclaredFields(DeclaredNames[i])])
                                             : k \in 0..2}}

VariantLists ==
    UNION {{[i \in 1..k |-> VariantInfo(VariantNames[i], fls[i])]
               : fls \in [1..k -> VariantFieldLists]} : k \in 1..MaxVariants}

InitUnion ==
    /\ target = "Event"
    /\ \E variants \in VariantLists, untagged \in BOOLEAN, with_union \in BOOLEAN :
          known = [n \in (IF with_union THEN {"Event", "U"} ELSE {"Event"}) |->
                      IF n = "U" THEN UnionU ELSE EnumType("Event", variants, untagged)]
    /\ shapes = <<>>
    /\ sample = None
    /\ pc = "start"
    /\ result = None
    /\ result2 = None
    /\ generated_names = <<>>
    /\ existing_structs = <<>>
    /\ schema = None
    /\ merge_strategy = "Optional"
    /\ original_source = ""
    /\ replacements = <<>>

NextUnion == ExpandType

SpecUnion == InitUnion /\ [][NextUnion]_vars

-----------------------------------------------------------------------------
(* C22 *)

\* the record expansion of the fields of variant v of the target
RecordShapes(v) == expand_struct_shapes(known[target].variants[v].fields[1], known)

\* how many shapes the claim gives variant v
ShapesOfVariant(v) ==
    IF known[target].variants[v].fields # None THEN Len(RecordShapes(v))
    ELSE IF known[target].is_untagged THEN 0 ELSE 1

RECURSIVE ShapesBefore(_)
ShapesBefore(v) == IF v = 1 THEN 0 ELSE ShapesBefore(v - 1) + ShapesOfVariant(v - 1)

\* C22: expand_enum_shapes returns, variant by variant, as many shapes as the
\* record expansion of the variant's fields has; for a tagged union each of
\* them is that record shape behind a required field tag typed with the
\* quoted variant name, and a unit variant gives the one shape holding only
\* that tag; for an untagged union the shapes are the record shapes as they
\* are and a unit variant gives no shape.
C22_UnionExpansion ==
    pc = "expanded" =>
        LET variants == known[target].variants
            tag(v) == [name |-> "tag", field_type |-> "\"" \o variants[v].name \o "\"",
                       is_required |-> TRUE]
        IN  /\ Len(shapes) = ShapesBefore(Len(variants) + 1)
            /\ \A v \in DOMAIN variants :
                  \A k \in 1..ShapesOfVariant(v) :
                      LET shape == shapes[ShapesBefore(v) + k]
                      IN  IF known[target].is_untagged
                          THEN shape.fields = RecordShapes(v)[k].fields
                          ELSE IF variants[v].fields = None
                          THEN shape.fields = <<tag(v)>>
                          ELSE /\ Head(shape.fields) = tag(v)
                               /\ Tail(shape.fields) = RecordShapes(v)[k].fields

\* a tagged union with a unit variant next to a variant that expands to
\* more than one shape
C22_Witness ==
    /\ pc = "expanded"
    /\ ~known[target].is_untagged
    /\ \E v, w \in DOMAIN known[target].variants :
          /\ known[target].variants[v].fields = None
          /\ known[target].variants[w].fields # None
          /\ ShapesOfVariant(w) > 1
    /\ Len(shapes) > 2

-----------------------------------------------------------------------------
(* C23 *)

\* the type of a record field with one Option layer taken off when the
\* field is optional
UnwrappedType(field) ==
    IF field.is_optional THEN unwrap_option_type(field.field_type) ELSE field.field_type

NamesUntaggedUnion(field) ==
    /\ UnwrappedType(field) \in DOMAIN known
    /\ known[UnwrappedType(field)].kind = "Enum"
    /\ known[UnwrappedType(field)].is_untagged

\* the variant shapes V of the union a field names
VariantShapes(field) == expand_enum_shapes(known[UnwrappedType(field)].variants, TRUE, known)

\* what the claim makes of one accumulated shape when it meets a field
Branches(shape, field) ==
    IF NamesUntaggedUnion(field)
    THEN (IF field.is_optional THEN <<shape>> ELSE <<>>)
         \o [u \in DOMAIN VariantShapes(field) |->
                [fields |-> shape.fields \o
                    [k \in DOMAIN VariantShapes(field)[u].fields |->
                        [VariantShapes(field)[u].fields[k] EXCEPT
                            !.is_required = ~field.is_optional /\ @]],
                 metadata |-> [original_enum_field_name |-> <<field.name>>,
                               source_enum_type |-> <<UnwrappedType(field)>>]]]
    ELSE <<[shape EXCEPT !.fields = Append(@, [name |-> field.name,
                                                field_type |-> field.field_type,
                                                is_required |-> ~field.is_optional])]>>

\* the shapes the claim accumulates over the first n fields of the target
RECURSIVE Accumulated(_)
Accumulated(n) ==
    IF n = 0 THEN <<[fields |-> <<>>, metadata |-> ShapeMetadata_new]>>
    ELSE LET before == Accumulated(n - 1)
         IN  Flatten([b \in DOMAIN before |-> Branches(before[b], known[target].fields[n])])

\* C23: the loop over the fields of a record turns every shape accumulated
\* so far, at a field naming a known untagged union, into one branch per
\* variant shape with the variant's fields appended (required iff the field
\* is not optional and the variant field is required) and with metadata
\* naming the field and the union, after the branch without the field when
\* the field is optional; at any other field it appends the field with
\* required = not optional.
C23_UnionFieldInlined ==
    pc = "inlined" => shapes = Accumulated(Len(known[target].fields))

\* an optional union field, a second union field (whose metadata overwrite
\* the first's) and a field that is no union
C23_Witness ==
    /\ pc = "inlined"
    /\ \E i, j, k \in DOMAIN known[target].fields :
          /\ i < j
          /\ NamesUntaggedUnion(known[target].fields[i]) /\ known[target].fields[i].is_optional
          /\ NamesUntaggedUnion(known[target].fields[j])
          /\ ~NamesUntaggedUnion(known[target].fields[k])
    /\ \E s \in Range(shapes) : s.metadata.original_enum_field_name = None
    /\ \E s \in Range(shapes) : s.metadata.original_enum_field_name # None

-----------------------------------------------------------------------------
(* patterns_compatible and types_compatible on pairs of field patterns *)

PatternTypes == {"String", "Option<String>", "Option < String >", "i64"}

\* what a shape can hold under one name: nothing or a field of any type
PatternOptions(n) ==
    {<<>>} \cup {<<ShapeField(n, t, r)>> : t \in PatternTypes, r \in BOOLEAN}

\* shapes over the names a and b, in both orders of the two fields
PatternShapes ==
    {Shape(fa \o fb, ShapeMetadata_new) : fa \in PatternOptions("a"), fb \in PatternOptions("b")}
    \cup {Shape(fb \o fa, ShapeMetadata_new) : fa \in PatternOptions("a"), fb \in PatternOptions("b")}

InitPatterns ==
    /\ shapes \in [1..2 -> PatternShapes]
    /\ known = NoTypes
    /\ sample = None
    /\ target = "T"
    /\ pc = "start"
    /\ result = None
    /\ result2 = None
    /\ generated_names = <<>>
    /\ existing_structs = <<>>
    /\ schema = None
    /\ merge_strategy = "Optional"
    /\ original_source = ""
    /\ replacements = <<>>

\* patterns_compatible on the name-sorted patterns of the two shapes
PatternsCompatible ==
    /\ pc = "start"
    /\ LET pattern1 == shape_pattern(shapes[1].fields)
           pattern2 == shape_pattern(shapes[2].fields)
       IN  result' = [pattern1 |-> pattern1, pattern2 |-> pattern2,
                      compatible |-> patterns_compatible(pattern1, pattern2)]
    /\ pc' = "compared"
    /\ UNCHANGED <<known, shapes, sample, target, result2, original_source, replacements, existing_structs, schema, merge_strategy, generated_names>>

\* types_compatible on the types of two one-field shapes, in both orders
TypesCompatible ==
    /\ pc = "start"
    /\ Len(shapes[1].fields) = 1 /\ Len(shapes[2].fields) = 1
    /\ result' = [type1 |-> shapes[1].fields[1].field_type,
                  type2 |-> shapes[2].fields[1].field_type,
                  compatible |-> types_compatible(shapes[1].fields[1].field_type,
                                                  shapes[2].fields[1].field_type),
                  swapped |-> types_compatible(shapes[2].fields[1].field_type,
                                               shapes[1].fields[1].field_type)]
    /\ pc' = "typed"
    /\ UNCHANGED <<known, shapes, sample, target, result2, original_source, replacements, existing_structs, schema, merge_strategy, generated_names>>

NextPatterns ==
    \/ PatternsCompatible
    \/ TypesCompatible

SpecPatterns == InitPatterns /\ [][NextPatterns]_vars

-----------------------------------------------------------------------------
(* C24 *)

\* the patterns are sorted by name
NameSorted(pattern) ==
    \A i, j \in DOMAIN pattern : i < j => ~StrLess(pattern[j][1], pattern[i][1])

-----------------------------------------------------------------------------
(* C25 *)

\* the type with its Option layer taken off, in either spelling
OptionInner(t) ==
    IF StartsWith(clean_type_string(t), "Option<") /\ EndsWith(clean_type_string(t), ">")
    THEN Some(SubSeq(clean_type_string(t), 8, Len(clean_type_string(t)) - 1))
    ELSE None

\* type compatibility as the claim states it
RECURSIVE ClaimedCompatible(_, _)
ClaimedCompatible(t1, t2) ==
    \/ clean_type_string(t1) = clean_type_string(t2)
    \/ OptionInner(t1) # None /\ ClaimedCompatible(OptionInner(t1)[1], t2)
    \/ OptionInner(t2) # None /\ ClaimedCompatible(t1, OptionInner(t2)[1])

\* C25: types_compatible holds of two type strings iff they are equal after
\* the whitespace around the generic brackets is normalized or one is the
\* Option-wrapped form of the other with compatible inner types; it is
\* symmetric and never accepts String with i64.
C25_TypesCompatible ==
    pc = "typed" =>
        /\ result.compatible <=> ClaimedCompatible(result.type1, result.type2)
        /\ result.compatible = result.swapped
        /\ {result.type1, result.type2} = {"String", "i64"} => ~result.compatible

-----------------------------------------------------------------------------
(* calculate_variant_compatibility on one sample shape and one variant *)

\* nothing, or one field of the name with one of the types
ScoreSampleOptions(n) ==
    {<<>>} \cup {<<ShapeField(n, t, TRUE)>> : t \in {"String", "i64"}}

ScoreVariantOptions(n) ==
    {<<>>} \cup {<<FieldInfo(n, t, FALSE)>> : t \in {"String", "Option<String>"}}

\* sample shapes over the names a, b, c, x, y
ScoreSamples ==
    {Shape(fa \o fb \o fc \o fx \o fy, ShapeMetadata_new) :
        fa \in ScoreSampleOptions("a"), fb \in ScoreSampleOptions("b"),
        fc \in ScoreSampleOptions("c"), fx \in ScoreSampleOptions("x"),
        fy \in ScoreSampleOptions("y")}

\* a unit variant and the struct variants over the names a, b, c
ScoreVariants ==
    {VariantInfo("V", None)} \cup
    {VariantInfo("V", Some(fa \o fb \o fc)) :
        fa \in ScoreVariantOptions("a"), fb \in ScoreVariantOptions("b"),
        fc \in ScoreVariantOptions("c")}

InitScore ==
    /\ shapes \in {<<json_shape>> : json_shape \in ScoreSamples}
    /\ known \in {[n \in {"Event"} |-> EnumType("Event", <<variant>>, TRUE)] :
                     variant \in ScoreVariants}
    /\ sample = None
    /\ target = "Event"
    /\ pc = "start"
    /\ result = None
    /\ result2 = None
    /\ generated_names = <<>>
    /\ existing_structs = <<>>
    /\ schema = None
    /\ merge_strategy = "Optional"
    /\ original_source = ""
    /\ replacements = <<>>

CalculateVariantCompatibility ==
    /\ pc = "start"
    /\ result' = calculate_variant_compatibility(shapes[1], known[target].variants[1])
    /\ pc' = "scored"
    /\ UNCHANGED <<known, shapes, sample, target, result2, original_source, replacements, existing_structs, schema, merge_strategy, generated_names>>

NextScore == CalculateVariantCompatibility

SpecScore == InitScore /\ [][NextScore]_vars

-----------------------------------------------------------------------------
(* C26 *)

\* the fields of the sample whose name the variant has too
SharedFields(json_shape, variant_fields) ==
    {i \in DOMAIN json_shape.fields : json_shape.fields[i].name \in FieldNames(variant_fields)}

\* 10 * matched / total rounded to the nearest integer
RoundedCoverage(matched, total) ==
    IF total = 0 THEN 0 ELSE (20 * matched + total) \div (2 * total)

\* the score as the claim computes it
ClaimedScore(json_shape, variant_fields) ==
    LET shared == SharedFields(json_shape, variant_fields)
        compatible == {i \in shared :
                          evolution_types_compatible(
                              json_shape.fields[i].field_type,
                              FindField(variant_fields, json_shape.fields[i].name).field_type)}
        gross == 10 * Cardinality(shared) + 5 * Cardinality(compatible)
                     + RoundedCoverage(Cardinality(shared), Len(variant_fields))
        unmatched == Len(json_shape.fields) - Cardinality(shared)
    IN  IF unmatched > Len(variant_fields)
        THEN (IF gross > 2 * unmatched THEN gross - 2 * unmatched ELSE 0)
        ELSE gross

\* C26: the score of a variant with fields is 10 per field name shared with
\* the sample, plus 5 per shared field of compatible type, plus
\* round(10 * matched / total_variant_fields) rounded to the nearest, minus
\* 2 * unmatched_sample_fields when the sample has more unmatched fields than
\* the variant has fields, never below 0; a unit variant scores 0.
C26_VariantScore ==
    pc = "scored" =>
        IF known[target].variants[1].fields = None
        THEN result = 0
        ELSE result = ClaimedScore(shapes[1], known[target].variants[1].fields[1])

-----------------------------------------------------------------------------
(* analyze_fold_back on common fields and residual variants *)

MaxResidualVariants == 3

\* the field lists of a residual variant: patterns of U, a name U lacks, two
\* fields out of name order, an optional field, and a field x next to a
\* pattern of U
FoldVariantFields ==
    {<<>>,
     <<ShapeField("a", "String", TRUE)>>,
     <<ShapeField("b", "String", TRUE)>>,
     <<ShapeField("d", "String", TRUE)>>,
     <<ShapeField("b", "String", TRUE), ShapeField("a", "String", TRUE)>>,
     <<ShapeField("a", "Option<String>", FALSE)>>,
     <<ShapeField("x", "String", TRUE), ShapeField("a", "String", TRUE)>>,
     <<ShapeField("x", "String", TRUE), ShapeField("b", "String", TRUE)>>}

FoldVariantLists ==
    UNION {{[i \in 1..n |-> ShapeVariant("Variant" \o ToString(i), fs[i])] :
               fs \in [1..n -> FoldVariantFields]} : n \in 0..MaxResidualVariants}

FoldCommonFields == {<<>>, <<ShapeField("k", "String", TRUE)>>}

\* the union U declared without #[serde(untagged)]
KnownTaggedU == [n \in {"U"} |-> EnumType("U", UnionU.variants, FALSE)]

\* original shapes without metadata, or expanded from a field contact: U
FoldOriginalShapes ==
    {<<>>,
     <<Shape(<<>>, ShapeMetadata_new)>>,
     <<Shape(<<>>, ShapeMetadata_new),
       Shape(<<>>, ShapeMetadata_with_enum_field("contact", "U"))>>}

\* sample holds the arguments common_fields and variants, shapes the
\* argument original_shapes
InitFold ==
    /\ known \in {NoTypes, KnownU, KnownUV, KnownTaggedU}
    /\ shapes \in FoldOriginalShapes
    /\ sample \in {[common_fields |-> cf, variants |-> vs] :
                      cf \in FoldCommonFields, vs \in FoldVariantLists}
    /\ target = "T"
    /\ pc = "start"
    /\ result = None
    /\ result2 = None
    /\ generated_names = <<>>
    /\ existing_structs = <<>>
    /\ schema = None
    /\ merge_strategy = "Optional"
    /\ original_source = ""
    /\ replacements = <<>>

\* analyze_fold_back(common_fields, variants, base_name, original_shapes)
AnalyzeFoldBack ==
    /\ pc = "start"
    /\ LET found == analyze_fold_back(sample.common_fields, sample.variants, target,
                                      shapes, known)
       IN  result' \in IF found = {} THEN {None} ELSE {Some(r) : r \in found}
    /\ pc' = "analyzed"
    /\ UNCHANGED <<known, shapes, sample, target, result2, original_source, replacements, existing_structs, schema, merge_strategy, generated_names>>

NextFold == AnalyzeFoldBack

SpecFold == InitFold /\ [][NextFold]_vars

-----------------------------------------------------------------------------
(* C27 *)

\* pattern fold-back found nothing on the current arguments
PatternFoldBackFoundNothing ==
    try_pattern_fold_back(sample.variants, target, shapes, known) = {}

\* the residual variants that pattern-match a variant of the union u
MatchedBy(u) ==
    {i \in DOMAIN sample.variants :
        matches_enum(shape_pattern(sample.variants[i].fields), known[u])}

\* the untagged unions with at least one matching residual variant
MatchingUnions == {u \in untagged_enums(known) : MatchedBy(u) # {}}

\* the field name the metadata of the original shapes records for u
RecordedNames(u) ==
    {shapes[i].metadata.original_enum_field_name[1] :
        i \in {j \in DOMAIN shapes :
                  /\ shapes[j].metadata.source_enum_type = Some(u)
                  /\ shapes[j].metadata.original_enum_field_name # None}}

\* fields is the common fields followed by one required field typed u
CommonPlusUnion(fields, u) ==
    /\ Len(fields) = Len(sample.common_fields) + 1
    /\ SubSeq(fields, 1, Len(sample.common_fields)) = sample.common_fields
    /\ fields[Len(fields)].field_type = u
    /\ fields[Len(fields)].is_required
    /\ RecordedNames(u) # {} => fields[Len(fields)].name \in RecordedNames(u)

\* new_variants are the residual variants left unmatched by u, in their
\* order, each with the fields it had
UnmatchedKept(new_variants, u) ==
    LET unmatched == SortedSeq((DOMAIN sample.variants) \ MatchedBy(u))
    IN  /\ Len(new_variants) = Len(unmatched)
        /\ \A k \in DOMAIN unmatched :
              Range(new_variants[k].fields) = Range(sample.variants[unmatched[k]].fields)

-----------------------------------------------------------------------------
(* optimize_variants on every list of residual shapes *)

InitCluster ==
    /\ shapes \in PlainShapeLists
    /\ known = NoTypes
    /\ sample = None
    /\ target = "T"
    /\ pc = "start"
    /\ result = None
    /\ result2 = None
    /\ generated_names = <<>>
    /\ existing_structs = <<>>
    /\ schema = None
    /\ merge_strategy = "Optional"
    /\ original_source = ""
    /\ replacements = <<>>

\* optimize_variants(shapes); clusters lists, per pass of the outer loop,
\* its mergeable_indices
ClusterResidualShapes ==
    /\ pc = "start"
    /\ \E variants \in optimize_variants(shapes) :
          result' = [clusters |-> mergeable_clusters(shapes, 1, {}), variants |-> variants]
    /\ pc' = "clustered"
    /\ UNCHANGED <<known, shapes, sample, target, result2, original_source, replacements, existing_structs, schema, merge_strategy, generated_names>>

NextCluster == ClusterResidualShapes

SpecCluster == InitCluster /\ [][NextCluster]_vars

-----------------------------------------------------------------------------
(* C28 *)

\* the lowest shape index of a cluster
Lowest(cluster) == CHOOSE i \in Range(cluster) : \A j \in Range(cluster) : i <= j

\* C28: optimize_variants partitions the n residual shapes: every shape index
\* is in exactly one cluster, there are between 1 and n variants (0 for
\* n = 0), one per cluster, in increasing order of the lowest shape index;
\* the names, Variant<i+1> for a singleton and MergedVariant<i+1> for a merged
\* cluster with i the lowest (0-based) index, are pairwise distinct, and the
\* field names of a variant are the union of the field names of the shapes
\* in its cluster.
C28_ClusteringPartitions ==
    pc = "clustered" =>
        LET n == Len(shapes)
            clusters == result.clusters
            variants == result.variants
        IN  /\ \A i \in 1..n :
                  Cardinality({c \in DOMAIN clusters : i \in Range(clusters[c])}) = 1
            /\ \A c \in DOMAIN clusters :
                  /\ Range(clusters[c]) \subseteq 1..n
                  /\ Len(clusters[c]) = Cardinality(Range(clusters[c]))
            /\ Len(variants) = Len(clusters)
            /\ IF n = 0 THEN Len(variants) = 0 ELSE Len(variants) \in 1..n
            /\ \A c, d \in DOMAIN clusters : c < d => Lowest(clusters[c]) < Lowest(clusters[d])
            /\ \A c \in DOMAIN variants :
                  /\ variants[c].name =
                        (IF Len(clusters[c]) = 1 THEN "Variant" ELSE "MergedVariant")
                            \o ToString(Lowest(clusters[c]))
                  /\ FieldNames(variants[c].fields) =
                        UNION {FieldNames(shapes[i].fields) : i \in Range(clusters[c])}
            /\ \A c, d \in DOMAIN variants : c # d => variants[c].name # variants[d].name

\* a merged cluster whose later shape brings a name the first one lacks,
\* next to a singleton
C28_Witness ==
    /\ pc = "clustered"
    /\ \E c, d \in DOMAIN result.clusters :
          /\ Len(result.clusters[c]) >= 2
          /\ Len(result.clusters[d]) = 1
          /\ FieldNames(result.variants[c].fields)
                 # FieldNames(shapes[result.clusters[c][1]].fields)

-----------------------------------------------------------------------------
(* json2rust-lib analyzer.rs: analyze_json_value, merge_types *)

(* serde_json::Value; the payload of a boolean, number or string plays no
   part in the analysis and is left out *)
Value_Null == [kind |-> "Null"]
Value_Bool == [kind |-> "Bool"]
Value_Number == [kind |-> "Number"]
Value_String == [kind |-> "String"]
Value_Array(arr) == [kind |-> "Array", items |-> arr]
\* obj maps each key to its value
Value_Object(obj) == [kind |-> "Object", entries |-> obj]

(* types.rs: JsonType *)
JsonType_String == [kind |-> "String"]
JsonType_Number == [kind |-> "Number"]
JsonType_Boolean == [kind |-> "Boolean"]
JsonType_Null == [kind |-> "Null"]
JsonType_Array(elem) == [kind |-> "Array", elem |-> elem]
\* the HashMap key -> JsonType
JsonType_Object(object_fields) == [kind |-> "Object", fields |-> object_fields]

\* a merge that keeps the type met first
merge_types_keep_first(type1, type2) ==
    IF type1.kind = "Null" THEN type2 ELSE type1

RECURSIVE merge_types(_, _)
merge_types(type1, type2) ==
    IF type1.kind = "Null" THEN type2
    ELSE IF type2.kind = "Null" THEN type1
    ELSE IF type1.kind = "String" /\ type2.kind = "String" THEN JsonType_String
    ELSE IF type1.kind = "Number" /\ type2.kind = "Number" THEN JsonType_Number
    ELSE IF type1.kind = "Boolean" /\ type2.kind = "Boolean" THEN JsonType_Boolean
    ELSE IF type1.kind = "Array" /\ type2.kind = "Array"
         THEN JsonType_Array(merge_types(type1.elem, type2.elem))
    ELSE IF type1.kind = "Object" /\ type2.kind = "Object"
         THEN JsonType_Object(
                  [key \in (DOMAIN type1.fields) \cup (DOMAIN type2.fields) |->
                      IF key \in DOMAIN type2.fields
                      THEN IF key \in DOMAIN type1.fields
                           THEN merge_types(type1.fields[key], type2.fields[key])
                           ELSE type2.fields[key]
                      ELSE type1.fields[key]])
    ELSE JsonType_String

\* the loop over the items of an array: element_type is None before the
\* first item
RECURSIVE analyze_json_value(_)
RECURSIVE merge_item_types(_, _)
merge_item_types(arr, element_type) ==
    IF arr = <<>> THEN element_type
    ELSE LET item_type == analyze_json_value(Head(arr))
         IN  merge_item_types(Tail(arr),
                              IF element_type = None THEN Some(item_type)
                              ELSE Some(merge_types(element_type[1], item_type)))

analyze_json_value(value) ==
    CASE value.kind = "Null" -> JsonType_Null
      [] value.kind = "Bool" -> JsonType_Boolean
      [] value.kind = "Number" -> JsonType_Number
      [] value.kind = "String" -> JsonType_String
      [] value.kind = "Array" ->
            IF value.items = <<>> THEN JsonType_Array(JsonType_Null)
            ELSE JsonType_Array(merge_item_types(value.items, None)[1])
      [] value.kind = "Object" ->
            JsonType_Object([key \in DOMAIN value.entries |->
                                analyze_json_value(value.entries[key])])

\* analyze_json_array on a top-level array: the json_type of the schema
analyze_json_array(value) ==
    IF value.kind = "Array"
    THEN IF value.items = <<>>
         THEN JsonType_Array(JsonType_Object([key \in {} |-> JsonType_Null]))
         ELSE JsonType_Array(merge_item_types(value.items, None)[1])
    ELSE analyze_json_value(value)

-----------------------------------------------------------------------------
(* merge_types and the analysis of arrays under every order of the items *)

MaxItems == 3

NoEntries == [key \in {} |-> Value_Null]

\* the items of a JSON array: scalars, arrays and objects one or two deep
ItemValues ==
    {Value_Null, Value_Bool, Value_Number, Value_String,
     Value_Array(<<>>), Value_Array(<<Value_Number>>), Value_Array(<<Value_String>>),
     Value_Array(<<Value_Bool>>), Value_Array(<<Value_Array(<<Value_Number>>)>>),
     Value_Array(<<Value_Object([a |-> Value_Number])>>),
     Value_Object(NoEntries), Value_Object([a |-> Value_Number]),
     Value_Object([a |-> Value_String]), Value_Object([a |-> Value_Null]),
     Value_Object([b |-> Value_Bool]), Value_Object([a |-> Value_Number, b |-> Value_Bool]),
     Value_Object([a |-> Value_Array(<<Value_Number>>)])}

\* sample is a JSON array of up to MaxItems items
InitAnalyze ==
    /\ sample \in UNION {{Value_Array(arr) : arr \in [1..n -> ItemValues]} : n \in 0..MaxItems}
    /\ known = NoTypes
    /\ shapes = <<>>
    /\ target = "T"
    /\ pc = "start"
    /\ result = None
    /\ result2 = None
    /\ generated_names = <<>>
    /\ existing_structs = <<>>
    /\ schema = None
    /\ merge_strategy = "Optional"
    /\ original_source = ""
    /\ replacements = <<>>

\* the array with its items in another order
Reordered(value, order) == Value_Array([i \in DOMAIN order |-> value.items[order[i]]])

\* analyze_json_value on the array
AnalyzeJsonValue ==
    /\ pc = "start"
    /\ result' = analyze_json_value(sample)
    /\ pc' = "analyzed_value"
    /\ UNCHANGED <<known, shapes, sample, target, result2, original_source, replacements, existing_structs, schema, merge_strategy, generated_names>>

\* analyze_json_value on the array with its items reordered
AnalyzeReorderedValue ==
    /\ pc = "analyzed_value"
    /\ \E order \in Orderings(DOMAIN sample.items) :
          result2' = analyze_json_value(Reordered(sample, order))
    /\ pc' = "reordered"
    /\ UNCHANGED <<known, shapes, sample, target, result, original_source, replacements, existing_structs, schema, merge_strategy, generated_names>>

\* analyze_json_array on the array as the top-level value
AnalyzeJsonArray ==
    /\ pc = "start"
    /\ result' = analyze_json_array(sample)
    /\ pc' = "analyzed_array"
    /\ UNCHANGED <<known, shapes, sample, target, result2, original_source, replacements, existing_structs, schema, merge_strategy, generated_names>>

\* analyze_json_array on the array with its items reordered
AnalyzeReorderedArray ==
    /\ pc = "analyzed_array"
    /\ \E order \in Orderings(DOMAIN sample.items) :
          result2' = analyze_json_array(Reordered(sample, order))
    /\ pc' = "reordered"
    /\ UNCHANGED <<known, shapes, sample, target, result, original_source, replacements, existing_structs, schema, merge_strategy, generated_names>>

\* merge_types on the types of three items, in the groupings and orders the
\* algebraic laws compare
MergeTypes ==
    /\ pc = "start"
    /\ Len(sample.items) = 3
    /\ LET type1 == analyze_json_value(sample.items[1])
           type2 == analyze_json_value(sample.items[2])
           type3 == analyze_json_value(sample.items[3])
       IN  result' = [type1 |-> type1, type2 |-> type2, type3 |-> type3,
                      merged12 |-> merge_types(type1, type2),
                      merged21 |-> merge_types(type2, type1),
                      left |-> merge_types(merge_types(type1, type2), type3),
                      right |-> merge_types(type1, merge_types(type2, type3)),
                      twice |-> merge_types(type1, type1),
                      with_null |-> merge_types(type1, JsonType_Null),
                      null_with |-> merge_types(JsonType_Null, type1)]
    /\ pc' = "merged_types"
    /\ UNCHANGED <<known, shapes, sample, target, result2, original_source, replacements, existing_structs, schema, merge_strategy, generated_names>>

NextAnalyze ==
    \/ AnalyzeJsonValue
    \/ AnalyzeReorderedValue
    \/ AnalyzeJsonArray
    \/ AnalyzeReorderedArray
    \/ MergeTypes

SpecAnalyze == InitAnalyze /\ [][NextAnalyze]_vars

-----------------------------------------------------------------------------
(* C29 *)

\* C29: merge_types is commutative, associative and idempotent and Null is
\* its identity, so the element type inferred for an array is the same under
\* every order of its items.
C29_MergeTypesLaws ==
    /\ pc = "merged_types" =>
          /\ result.merged12 = result.merged21
          /\ result.left = result.right
          /\ result.twice = result.type1
          /\ result.with_null = result.type1
          /\ result.null_with = result.type1
    /\ pc = "reordered" => result2 = result

\* two objects with different keys merged into a third type, then merged
\* with an array
C29_Witness ==
    /\ pc = "merged_types"
    /\ result.type1.kind = "Object" /\ result.type2.kind = "Object"
    /\ result.merged12 \notin {result.type1, result.type2}
    /\ result.type3.kind = "Array"
    /\ result.left = JsonType_String

-----------------------------------------------------------------------------
(* json2rust-lib codegen.rs: ensure_unique_name *)

\* <<name returned, table after the call>>
ensure_unique_name(base_name, names) ==
    LET count == (IF base_name \in DOMAIN names THEN names[base_name] ELSE 0) + 1
        table == [n \in (DOMAIN names) \cup {base_name} |->
                     IF n = base_name THEN count ELSE names[n]]
    IN  <<IF count = 1 THEN base_name ELSE base_name \o ToString(count), table>>

MaxCalls == 4

BaseNames == {"Person", "Person2", "Person22", "Item"}

\* a fresh table (HashMap::new()) and no name returned yet
InitNames ==
    /\ generated_names = <<>>
    /\ result = <<>>
    /\ pc = "start"
    /\ known = NoTypes
    /\ shapes = <<>>
    /\ sample = None
    /\ target = "T"
    /\ result2 = None
    /\ existing_structs = <<>>
    /\ schema = None
    /\ merge_strategy = "Optional"
    /\ original_source = ""
    /\ replacements = <<>>

\* one call of ensure_unique_name; result lists the calls made so far
EnsureUniqueName ==
    /\ Len(result) < MaxCalls
    /\ \E base_name \in BaseNames :
          LET call == ensure_unique_name(base_name, generated_names)
          IN  /\ result' = Append(result, [base_name |-> base_name, returned |-> call[1]])
              /\ generated_names' = call[2]
    /\ pc' = "named"
    /\ UNCHANGED <<known, shapes, sample, target, result2, original_source, replacements, existing_structs, schema, merge_strategy>>

NextNames == EnsureUniqueName

SpecNames == InitNames /\ [][NextNames]_vars

-----------------------------------------------------------------------------
(* C30 *)

\* the number of requests for the base of call i up to and including call i
RequestNumber(i) ==
    Cardinality({j \in 1..i : result[j].base_name = result[i].base_name})

\* C30: across a sequence of ensure_unique_name calls on one table no two
\* calls return the same name: the first request for a base returns the base,
\* the n-th returns the base followed by n, and a name returned for one base
\* never equals a name returned for another.
C30_NamesUnique ==
    pc = "named" =>
        /\ \A i \in DOMAIN result :
              result[i].returned =
                  IF RequestNumber(i) = 1 THEN result[i].base_name
                  ELSE result[i].base_name \o ToString(RequestNumber(i))
        /\ \A i, j \in DOMAIN result : i # j => result[i].returned # result[j].returned

=============================================================================
